---- MODULE Spec2Model ----
(***************************************************************************)
(* Model of the JobXpress retrieval pipeline:                              *)
(*   - SearchEngineV2._deduplicate_fuzzy (services/search_engine_v2.py)    *)
(*   - CircuitBreaker, resilient_get (core/retry.py)                       *)
(*   - the source adapters and the JSearch cascade                         *)
(*     (services/search_engine.py, services/search_engine_v2.py)           *)
(*   - SearchEngineV2.find_jobs_v2 and _apply_smart_filters                *)
(*   - LLMEngine._analyze_single_offer (services/llm_engine.py)            *)
(* Each part has its own specification; the variables of the other parts   *)
(* rest at their idle values.                                              *)
(* Strings are sequences of one-character strings.                         *)
(***************************************************************************)
EXTENDS Integers, Sequences, FiniteSets, TLC

VARIABLES
    \* deduplication stage of find_jobs_v2
    all_jobs,           \* the aggregated postings handed to _deduplicate_fuzzy
    unique_jobs,        \* its result
    rerun_jobs,         \* the result of deduplicating unique_jobs once more
    phase,              \* "aggregated", "deduplicated" or "rerun"
    \* one CircuitBreaker instance
    state,              \* "CLOSED", "OPEN" or "HALF_OPEN"
    failure_count,
    last_failure_time,  \* Optional time: [set |-> BOOLEAN, t |-> time]
    now,                \* datetime.now()
    calls,              \* per caller: "idle", or the state the call was admitted in
    consec_failures,    \* history: failed calls since the last success or reset
    last_event,         \* history: what the last step of any call did
    \* one source adapter using that breaker and resilient_get
    adapter,            \* "none", "jsearch", "active_jobs" or "serpapi"
    fetch_pc,           \* where the adapter is in its code
    titles_left,        \* _search_active_jobs_db: titles still to query
    attempts,           \* outcomes of the attempts of the current resilient_get
    fetch_exc,          \* class of the exception the current call raised, or "none"
    contribution,       \* postings the last finished call contributed
    all_found,          \* postings the adapter returns
    escaped,            \* an exception left the adapter
    \* find_jobs_v2: the concurrent source tasks and their join
    serpapi_key,        \* settings.SERPAPI_KEY is set
    results,            \* per source task: pending, a list, or an exception
    search_raised,      \* an exception left find_jobs_v2
    \* _search_jsearch_strategy: the cascade of JSearch queries
    jsearch_type,       \* JSEARCH_TYPES_MAP has the candidate's contract type
    cascade_pc,         \* "rung1", "rung2", "rung3" or "done"
    jsearch_jobs,       \* the list the cascade returns
    merged,             \* history: the list as the second rung left it
    rung_log,           \* history: the queries issued and what each returned
    \* _apply_smart_filters
    filter_pc,          \* "idle", "input" or "filtered"
    candidate_title,    \* candidate.job_title
    filters,            \* the filters dict: each key may be absent
    clock,              \* datetime.now(): a day and whether midnight is past
    unfiltered,         \* the postings handed to _apply_smart_filters
    filtered,           \* the postings it returns
    \* _analyze_single_offer
    score_pc,           \* "idle", "analyzing" or "scored"
    api_key,            \* the DeepSeek key is configured
    candidate,          \* the fields of the CandidateProfile that are read
    offer,              \* the posting, with its match_score and ai_analysis
    score_path,         \* history: "none", "mock", "llm" or "fallback"
    \* analyze_offers_parallel: one task per posting, gathered and sorted
    batch_pc,           \* "idle", "gathering", "returned" or "raised"
    batch_offers,       \* the postings handed in, scored in place
    batch_tasks,        \* per posting: "pending" or how its task ended
    analyzed_offers,    \* the list analyze_offers_parallel returns
    \* _enrich_jobs_with_full_content: one _fetch_single_url task per posting
    enrich_pc,          \* "idle", "gathering", "returned" or "raised"
    enrich_input,       \* history: the postings as they were handed in
    enrich_offers,      \* the postings, enriched in place
    enrich_tasks,       \* per posting: "pending" or how its task ended
    enriched,           \* the list _enrich_jobs_with_full_content returns
    \* repeated calls of _call_jsearch_api on the module's jsearch_circuit
    upstream,           \* what the JSearch API answers to a request, for now
    search_log,         \* history: per finished call, the upstream and the result
    \* POST /webhooks/stripe
    admin_client,       \* db_service.admin_client is available
    stripe_events,      \* the rows of the table stripe_events
    user_profile,       \* the row of the customer in user_profiles
    applied,            \* history: per event id, the profile updates it caused
    deliveries,         \* history: per handled delivery, what the handler did
    \* POST /webhook/tally
    cache,              \* the cache table: per email the email_dedup entry
    tally_log,          \* history: per payload, its email, time and answer
    \* find_jobs_v2, step 5: the slice of the filtered list that is enriched
    filtered_jobs,      \* the list _apply_smart_filters returned
    limit,              \* the limit argument of find_jobs_v2
    \* The task queue of the Tally webhook (tasks table, crash recovery).
    task_queue,         \* rows of the tasks table, by id
    server_up,          \* the process is running
    workers,            \* the process_application_task of each task
    requeues,           \* how often recovery reset each task (history)
    \* CacheService: the cache table and the operations called on it.
    store,              \* rows of the cache table, by key
    set_calls,          \* per key, the last set call and whether delete was called since (history)
    set_done,           \* the same, counting only the calls whose statement ran (history)
    last_op,            \* the last operation and what it returned
    ops,                \* number of operations so far
    \* The V2 workflow: applications_v2 rows, background tasks, credits.
    applications,       \* rows of applications_v2, with the position of their tasks
    credits,            \* credits of the user
    \* The JobyJoba chat: one chat_sessions row and the requests to /chat/send.
    chat_session,       \* the chat_sessions row of the application
    chat_requests       \* the send_chat_message requests, in order of arrival

dedup_vars == <<all_jobs, unique_jobs, rerun_jobs, phase>>

breaker_vars == <<state, failure_count, last_failure_time, now, calls,
                  consec_failures, last_event>>

fetch_vars == <<adapter, fetch_pc, titles_left, attempts, fetch_exc,
                contribution, all_found, escaped>>

vars == <<all_jobs, unique_jobs, rerun_jobs, phase, state, failure_count,
          last_failure_time, now, calls, consec_failures, last_event,
          adapter, fetch_pc, titles_left, attempts, fetch_exc, contribution,
          all_found, escaped, serpapi_key, results, search_raised,
          jsearch_type, cascade_pc, jsearch_jobs, merged, rung_log,
          filter_pc, candidate_title, filters, clock, unfiltered, filtered,
          score_pc, api_key, candidate, offer, score_path,
          batch_pc, batch_offers, batch_tasks, analyzed_offers,
          enrich_pc, enrich_input, enrich_offers, enrich_tasks, enriched,
          upstream, search_log,
          admin_client, stripe_events, user_profile, applied, deliveries,
          cache, tally_log,
          filtered_jobs, limit,
          task_queue, server_up, workers, requeues,
          store, set_calls, set_done, last_op, ops,
          applications, credits,
          chat_session, chat_requests>>

score_vars == <<score_pc, api_key, candidate, offer, score_path>>

filter_vars == <<filter_pc, candidate_title, filters, clock, unfiltered,
                 filtered>>

search_vars == <<serpapi_key, results, search_raised>>

cascade_vars == <<jsearch_type, cascade_pc, jsearch_jobs, merged, rung_log>>

batch_vars == <<batch_pc, batch_offers, batch_tasks, analyzed_offers>>

enrich_vars == <<enrich_pc, enrich_input, enrich_offers, enrich_tasks,
                 enriched>>

repeat_vars == <<upstream, search_log>>

stripe_vars == <<admin_client, stripe_events, user_profile, applied,
                 deliveries>>

tally_vars == <<cache, tally_log>>

find_vars == <<filtered_jobs, limit>>

task_vars == <<task_queue, server_up, workers, requeues>>

kv_vars == <<store, set_calls, set_done, last_op, ops>>

app_vars == <<applications, credits>>

chat_vars == <<chat_session, chat_requests>>

\* The parts downstream of the search.
service_vars ==
    <<batch_vars, enrich_vars, repeat_vars, stripe_vars, tally_vars,
      find_vars,
      task_vars,
      kv_vars,
      app_vars,
      chat_vars>>

search_side_vars ==
    <<dedup_vars, breaker_vars, fetch_vars, search_vars, cascade_vars,
      filter_vars>>

not_batch_vars ==
    <<search_side_vars, enrich_vars, repeat_vars, stripe_vars, tally_vars,
      find_vars,
      task_vars,
      kv_vars,
      app_vars,
      chat_vars>>

not_enrich_vars ==
    <<search_side_vars, score_vars, batch_vars, repeat_vars, stripe_vars,
      tally_vars, find_vars,
      task_vars,
      kv_vars,
      app_vars,
      chat_vars>>

not_repeat_vars ==
    <<dedup_vars, fetch_vars, search_vars, cascade_vars, filter_vars,
      score_vars, batch_vars, enrich_vars, stripe_vars, tally_vars,
      find_vars,
      task_vars,
      kv_vars,
      app_vars,
      chat_vars>>

not_stripe_vars ==
    <<search_side_vars, score_vars, batch_vars, enrich_vars, repeat_vars,
      tally_vars,
      find_vars,
      task_vars,
      kv_vars,
      app_vars,
      chat_vars>>

not_tally_vars ==
    <<search_side_vars, score_vars, batch_vars, enrich_vars, repeat_vars,
      stripe_vars,
      find_vars,
      task_vars,
      kv_vars,
      app_vars,
      chat_vars>>

not_find_vars ==
    <<search_side_vars, score_vars,
      batch_vars, repeat_vars, stripe_vars, tally_vars,
      task_vars,
      kv_vars,
      app_vars,
      chat_vars>>

not_task_vars ==
    <<search_side_vars, score_vars,
      batch_vars, enrich_vars, repeat_vars, stripe_vars, tally_vars, find_vars,
      kv_vars,
      app_vars,
      chat_vars>>

not_kv_vars ==
    <<search_side_vars, score_vars,
      batch_vars, enrich_vars, repeat_vars, stripe_vars, tally_vars, find_vars, task_vars,
      app_vars,
      chat_vars>>

not_app_vars ==
    <<search_side_vars, score_vars,
      batch_vars, enrich_vars, repeat_vars, stripe_vars, tally_vars, find_vars, task_vars, kv_vars,
      chat_vars>>

not_chat_vars ==
    <<search_side_vars, score_vars,
      batch_vars, enrich_vars, repeat_vars, stripe_vars, tally_vars, find_vars, task_vars, kv_vars, app_vars>>

\* What the steps of one part of the pipeline leave alone.
not_dedup_vars ==
    <<breaker_vars, fetch_vars, search_vars, cascade_vars, filter_vars,
      score_vars,
      service_vars>>

not_breaker_vars ==
    <<dedup_vars, fetch_vars, search_vars, cascade_vars, filter_vars,
      score_vars,
      service_vars>>

not_fetch_vars ==
    <<dedup_vars, search_vars, cascade_vars, filter_vars, score_vars,
      service_vars>>

not_search_vars ==
    <<breaker_vars, fetch_vars, cascade_vars, filter_vars, score_vars,
      service_vars>>

not_cascade_vars ==
    <<dedup_vars, breaker_vars, fetch_vars, search_vars, filter_vars,
      score_vars,
      service_vars>>

not_filter_vars ==
    <<dedup_vars, breaker_vars, fetch_vars, search_vars, cascade_vars,
      score_vars,
      service_vars>>

not_score_vars ==
    <<dedup_vars, breaker_vars, fetch_vars, search_vars, cascade_vars,
      filter_vars,
      service_vars>>

(***************************************************************************)
(* Bounds of the model.                                                    *)
(***************************************************************************)
MaxJobs == 3          \* postings in one aggregated list
MaxCallers == 2       \* concurrent users of one breaker
MaxTime == 4          \* clock ticks
MaxFailureCount == 5  \* cap of failure_count
recovery_timeout == 2 \* CircuitBreaker.recovery_timeout, in clock ticks

\* CircuitBreaker.failure_threshold of deepseek_circuit.
failure_threshold == 3

Callers == 1..MaxCallers

(***************************************************************************)
(* String helpers: str.lower(), str.strip(), slugify().                    *)
(***************************************************************************)
UpperCase == <<"A", "B", "C", "D", "E", "F", "G", "H", "I", "J", "K", "L", "M",
               "N", "O", "P", "Q", "R", "S", "T", "U", "V", "W", "X", "Y", "Z">>

LowerCase == <<"a", "b", "c", "d", "e", "f", "g", "h", "i", "j", "k", "l", "m",
               "n", "o", "p", "q", "r", "s", "t", "u", "v", "w", "x", "y", "z">>

ToLower == [i \in 1..Len(UpperCase) |-> LowerCase[i]]

LowerChar(c) ==
    LET hit == {i \in 1..Len(UpperCase) : UpperCase[i] = c} IN
    IF hit = {} THEN c ELSE ToLower[CHOOSE i \in hit : TRUE]

lower(s) == [i \in 1..Len(s) |-> LowerChar(s[i])]

IsSpace(c) == c = " "

RECURSIVE lstrip(_)
lstrip(s) == IF s # <<>> /\ IsSpace(Head(s)) THEN lstrip(Tail(s)) ELSE s

RECURSIVE rstrip(_)
rstrip(s) ==
    IF s # <<>> /\ IsSpace(s[Len(s)]) THEN rstrip(SubSeq(s, 1, Len(s) - 1)) ELSE s

strip(s) == rstrip(lstrip(s))

Digits == {"0", "1", "2", "3", "4", "5", "6", "7", "8", "9"}

IsAlnum(c) == (\E i \in 1..Len(LowerCase) : LowerCase[i] = c) \/ c \in Digits

\* slugify(text, lowercase=True): lowercase, every run of characters that are
\* not letters or digits becomes one hyphen, leading and trailing hyphens are
\* stripped.
RECURSIVE SlugChars(_, _)
SlugChars(s, acc) ==
    IF s = <<>> THEN acc
    ELSE LET c == LowerChar(Head(s)) IN
         IF IsAlnum(c) THEN SlugChars(Tail(s), Append(acc, c))
         ELSE IF acc # <<>> /\ acc[Len(acc)] # "-"
              THEN SlugChars(Tail(s), Append(acc, "-"))
              ELSE SlugChars(Tail(s), acc)

slugify(s) ==
    LET r == SlugChars(s, <<>>) IN
    IF r # <<>> /\ r[Len(r)] = "-" THEN SubSeq(r, 1, Len(r) - 1) ELSE r

(***************************************************************************)
(* fuzz.ratio(a, b): the normalised indel similarity                       *)
(* round(100 * 2 * LCS(a, b) / (len(a) + len(b))), an integer in 0..100.   *)
(***************************************************************************)
Max2(a, b) == IF a >= b THEN a ELSE b

LCS(a, b) ==
    LET n == Len(a)
        m == Len(b)
        L[i \in 0..n, j \in 0..m] ==
            IF i = 0 \/ j = 0 THEN 0
            ELSE IF a[i] = b[j] THEN L[i - 1, j - 1] + 1
            ELSE Max2(L[i - 1, j], L[i, j - 1])
    IN L[n, m]

\* Python's round(): half to even.
RoundDiv(num, den) ==
    LET q == num \div den
        r == num % den
    IN IF 2 * r > den THEN q + 1
       ELSE IF 2 * r < den THEN q
       ELSE IF q % 2 = 0 THEN q ELSE q + 1

fuzz_ratio(a, b) ==
    IF Len(a) + Len(b) = 0 THEN 100
    ELSE RoundDiv(200 * LCS(a, b), Len(a) + Len(b))

(***************************************************************************)
(* _parse_date.  A date string is a record of its format and of its three  *)
(* numeric fields in the order they are written: "iso" is %Y-%m-%d, "fr"   *)
(* is %d/%m/%Y, "junk" is text no format accepts and "none" is None.  The  *)
(* result is an Optional day ordinal: [ok |-> TRUE, day |-> n] or NoDate.  *)
(* The relative forms ("3 days ago") are not among the date strings used.  *)
(***************************************************************************)
NoDate == [ok |-> FALSE, day |-> 0]

ValidYMD(y, m, d) == m \in 1..12 /\ d \in 1..31

Ordinal(y, m, d) == (y * 12 + (m - 1)) * 31 + (d - 1)

_parse_date(date_str) ==
    IF date_str.fmt = "iso" /\ ValidYMD(date_str.f1, date_str.f2, date_str.f3)
    THEN [ok |-> TRUE, day |-> Ordinal(date_str.f1, date_str.f2, date_str.f3)]
    ELSE IF date_str.fmt = "fr" /\ ValidYMD(date_str.f3, date_str.f2, date_str.f1)
    THEN [ok |-> TRUE, day |-> Ordinal(date_str.f3, date_str.f2, date_str.f1)]
    ELSE NoDate

(***************************************************************************)
(* _deduplicate_fuzzy.  seen_keys is the dict in insertion order: one      *)
(* record per key "slug|title" with the (index, date) it maps to.          *)
(***************************************************************************)
\* slugify(job.company or "unknown", lowercase=True)
CompanySlug(job) ==
    slugify(IF job.company = <<>>
            THEN <<"u", "n", "k", "n", "o", "w", "n">>
            ELSE job.company)

JobTitleLower(job) == strip(lower(job.title))

SameCompany_Always(company_slug, existing_company_slug) == TRUE

SameCompany(company_slug, existing_company_slug) ==
    company_slug = existing_company_slug

SimilarTitle(job_title_lower, existing_title) ==
    fuzz_ratio(job_title_lower, existing_title) > 90

\* Index in seen_keys of the first key the posting duplicates, 0 when none.
RECURSIVE FindDuplicate(_, _, _, _)
FindDuplicate(seen_keys, k, company_slug, job_title_lower) ==
    IF k > Len(seen_keys) THEN 0
    ELSE IF /\ SameCompany(company_slug, seen_keys[k].slug)
            /\ SimilarTitle(job_title_lower, seen_keys[k].title)
         THEN k
         ELSE FindDuplicate(seen_keys, k + 1, company_slug, job_title_lower)

\* One iteration of "for job in jobs" on the pair (unique, seen_keys).
DedupStep(acc, job) ==
    LET company_slug == CompanySlug(job)
        job_title_lower == JobTitleLower(job)
        k == FindDuplicate(acc.seen_keys, 1, company_slug, job_title_lower)
        job_date == _parse_date(job.date_posted)
    IN IF k = 0
       THEN [unique |-> Append(acc.unique, job),
             seen_keys |-> Append(acc.seen_keys,
                                  [slug |-> company_slug, title |-> job_title_lower,
                                   idx |-> Len(acc.unique) + 1, date |-> job_date])]
       ELSE LET existing_date == acc.seen_keys[k].date
                idx == acc.seen_keys[k].idx
            IN IF job_date.ok /\ existing_date.ok /\ job_date.day > existing_date.day
               THEN [unique |-> [acc.unique EXCEPT ![idx] = job],
                     seen_keys |-> [acc.seen_keys EXCEPT ![k].date = job_date]]
               ELSE acc

RECURSIVE DedupLoop(_, _)
DedupLoop(jobs, acc) ==
    IF jobs = <<>> THEN acc ELSE DedupLoop(Tail(jobs), DedupStep(acc, Head(jobs)))

_deduplicate_fuzzy(jobs) ==
    DedupLoop(jobs, [unique |-> <<>>, seen_keys |-> <<>>]).unique

(***************************************************************************)
(* CircuitBreaker.  call() runs up to its await in one step (CallEnter)    *)
(* and resumes when the wrapped coroutine returns (CallSuccess) or raises  *)
(* (CallFailure); steps of other callers may come in between.              *)
(***************************************************************************)
RecoveryElapsed(lft, t) == t - lft.t > recovery_timeout

_check_recovery_AnyState(st, lft, t) ==
    IF lft.set /\ RecoveryElapsed(lft, t) THEN "HALF_OPEN" ELSE st

\* _check_recovery: the state it leaves.
_check_recovery(st, lft, t) ==
    IF st = "OPEN" /\ lft.set /\ RecoveryElapsed(lft, t) THEN "HALF_OPEN" ELSE st

CircuitIsOpen_Never(st) == FALSE

\* if self.state == "OPEN": raise
CircuitIsOpen(st) == st = "OPEN"

\* call(): _check_recovery, then raise when OPEN, else start the wrapped call.
CallEnter(c) ==
    /\ calls[c] = "idle"
    /\ LET st == _check_recovery(state, last_failure_time, now) IN
       /\ state' = st
       /\ IF CircuitIsOpen(st)
          THEN /\ calls' = calls
               /\ last_event' = [kind |-> "short_circuit", admitted |-> "idle"]
          ELSE /\ calls' = [calls EXCEPT ![c] = st]
               /\ last_event' = [kind |-> "invoked", admitted |-> st]
    /\ UNCHANGED <<failure_count, last_failure_time, now, consec_failures>>
    /\ UNCHANGED not_breaker_vars

\* The wrapped call returned: the circuit closes only from HALF_OPEN.
CallSuccess(c) ==
    /\ calls[c] # "idle"
    /\ IF state = "HALF_OPEN"
       THEN state' = "CLOSED" /\ failure_count' = 0
       ELSE UNCHANGED <<state, failure_count>>
    /\ calls' = [calls EXCEPT ![c] = "idle"]
    /\ consec_failures' = 0
    /\ last_event' = [kind |-> "success", admitted |-> calls[c]]
    /\ UNCHANGED <<last_failure_time, now>>
    /\ UNCHANGED not_breaker_vars

\* The wrapped call raised.
CallFailure(c) ==
    /\ calls[c] # "idle"
    /\ failure_count < MaxFailureCount
    /\ failure_count' = failure_count + 1
    /\ last_failure_time' = [set |-> TRUE, t |-> now]
    /\ state' = IF failure_count + 1 >= failure_threshold THEN "OPEN" ELSE state
    /\ calls' = [calls EXCEPT ![c] = "idle"]
    /\ consec_failures' = consec_failures + 1
    /\ last_event' = [kind |-> "failure", admitted |-> calls[c]]
    /\ UNCHANGED now
    /\ UNCHANGED not_breaker_vars

\* reset().  The circuit is CLOSED from here on, and so the calls still in
\* flight count as calls of a CLOSED circuit.
Reset ==
    /\ failure_count' = 0
    /\ state' = "CLOSED"
    /\ last_failure_time' = [set |-> FALSE, t |-> 0]
    /\ calls' = [c \in Callers |-> IF calls[c] = "idle" THEN "idle" ELSE "CLOSED"]
    /\ consec_failures' = 0
    /\ last_event' = [kind |-> "reset", admitted |-> "idle"]
    /\ UNCHANGED now
    /\ UNCHANGED not_breaker_vars

\* Time passes.
Tick ==
    /\ now < MaxTime
    /\ now' = now + 1
    /\ UNCHANGED <<state, failure_count, last_failure_time, calls,
                   consec_failures, last_event>>
    /\ UNCHANGED not_breaker_vars

(***************************************************************************)
(* The postings the sources may return.                                    *)
(***************************************************************************)
Titles ==
    { <<"A", "b", "c", "d", "e", " ">>,
      <<"a", "b", "c", "d", "e", "f">>,
      <<"a", "b", "c", "d", "e", "f", "g">> }

DateStrings ==
    { [fmt |-> "none", f1 |-> 0, f2 |-> 0, f3 |-> 0],
      [fmt |-> "iso", f1 |-> 2024, f2 |-> 1, f3 |-> 15],
      [fmt |-> "fr", f1 |-> 16, f2 |-> 1, f3 |-> 2024] }

\* One source reports one company under every title and date, each with its
\* apply link; another reports one title for two companies, without an apply
\* link ("#", as the parsers fill in) and with French or missing dates.
LinkedOffers ==
    [title : Titles, company : { <<"A", " ", "b", ".">> },
     url : { "http://job1.com" }, date_posted : DateStrings]

UnlinkedOffers ==
    [title : { <<"a", "b", "c", "d", "e", "f">> },
     company : { <<"a", "-", "b">>, <<"c">> },
     url : { "#" },
     date_posted : { d \in DateStrings : d.fmt # "iso" }]

JobOffer == LinkedOffers \cup UnlinkedOffers

JobLists == UNION { [1..n -> JobOffer] : n \in 0..MaxJobs }

\* The breaker as constructed by CircuitBreaker.__init__.
BreakerInit ==
    /\ state = "CLOSED"
    /\ failure_count = 0
    /\ last_failure_time = [set |-> FALSE, t |-> 0]
    /\ now = 0
    /\ calls = [c \in Callers |-> "idle"]
    /\ consec_failures = 0
    /\ last_event = [kind |-> "init", admitted |-> "idle"]

\* No adapter is running.
FetchIdle ==
    /\ adapter = "none"
    /\ fetch_pc = "idle"
    /\ titles_left = 0
    /\ attempts = <<>>
    /\ fetch_exc = "none"
    /\ contribution = <<>>
    /\ all_found = <<>>
    /\ escaped = FALSE

\* No search is running.
SearchIdle ==
    /\ serpapi_key = FALSE
    /\ results = <<>>
    /\ search_raised = FALSE

\* A key that the filters dict does not have.
Absent == [set |-> FALSE, v |-> 0]

AbsentFlag == [set |-> FALSE, v |-> FALSE]

\* A value of the JSON object the LLM answers with: a missing key, a
\* number or a string.
NoValue == [kind |-> "absent", n |-> 0]

\* offer.ai_analysis is None.
NoAnalysis ==
    [mode |-> "none", score_technical |-> NoValue, score_structural |-> NoValue,
     score_experience |-> NoValue, is_school_scheme |-> "absent"]

\* No batch is being scored.
BatchIdle ==
    /\ batch_pc = "idle"
    /\ batch_offers = <<>>
    /\ batch_tasks = <<>>
    /\ analyzed_offers = <<>>

\* No list is being enriched.
EnrichIdle ==
    /\ enrich_pc = "idle"
    /\ enrich_input = <<>>
    /\ enrich_offers = <<>>
    /\ enrich_tasks = <<>>
    /\ enriched = <<>>

\* No call of _call_jsearch_api was made.
RepeatIdle ==
    /\ upstream = [outcome |-> [cls |-> "none", status |-> 200],
                   payload |-> [valid |-> TRUE, jobs |-> <<>>]]
    /\ search_log = <<>>

\* No Stripe event was delivered.
StripeIdle ==
    /\ admin_client = FALSE
    /\ stripe_events = <<>>
    /\ user_profile = [plan |-> "FREE", credits |-> 0, last_credit_reset |-> 0]
    /\ applied = <<>>
    /\ deliveries = <<>>

\* No Tally payload was received.
TallyIdle ==
    /\ cache = <<>>
    /\ tally_log = <<>>

\* find_jobs_v2 is not running.
FindIdle ==
    /\ filtered_jobs = <<>>
    /\ limit = 0

\* No task was ever enqueued.
TaskIdle ==
    /\ task_queue = <<>>
    /\ server_up = TRUE
    /\ workers = <<>>
    /\ requeues = <<>>

\* No cache operation was called.
KvIdle ==
    /\ store = <<>>
    /\ set_calls = <<>>
    /\ set_done = <<>>
    /\ last_op = <<>>
    /\ ops = 0

\* No search was started.
AppIdle ==
    /\ applications = <<>>
    /\ credits = 0

\* No chat session, no chat request.
ChatIdle ==
    /\ chat_session = <<>>
    /\ chat_requests = <<>>

\* The parts downstream of the search are at rest.
ServiceIdle ==
    /\ BatchIdle
    /\ EnrichIdle
    /\ RepeatIdle
    /\ StripeIdle
    /\ TallyIdle
    /\ FindIdle
    /\ TaskIdle
    /\ KvIdle
    /\ AppIdle
    /\ ChatIdle

\* No posting is being scored.
ScoreIdle ==
    /\ score_pc = "idle"
    /\ api_key = FALSE
    /\ candidate = [job_title |-> <<>>, location |-> <<>>, work_type |-> "Tous"]
    /\ offer = [title |-> <<>>, location |-> <<>>, description |-> <<>>,
                is_remote |-> FALSE, match_score |-> 0,
                ai_analysis |-> NoAnalysis]
    /\ score_path = "none"

\* No list is being filtered.
FilterIdle ==
    /\ filter_pc = "idle"
    /\ candidate_title = <<>>
    /\ filters = [exclude_agencies |-> AbsentFlag, max_days_old |-> Absent]
    /\ clock = [day |-> 0, pm |-> FALSE]
    /\ unfiltered = <<>>
    /\ filtered = <<>>

\* No cascade is running.
CascadeIdle ==
    /\ jsearch_type = FALSE
    /\ cascade_pc = "done"
    /\ jsearch_jobs = <<>>
    /\ merged = <<>>
    /\ rung_log = <<>>

\* No list is being deduplicated.
DedupIdle ==
    /\ all_jobs = <<>>
    /\ unique_jobs = <<>>
    /\ rerun_jobs = <<>>
    /\ phase = "aggregated"

DedupInit ==
    /\ all_jobs \in JobLists
    /\ unique_jobs = <<>>
    /\ rerun_jobs = <<>>
    /\ phase = "aggregated"
    /\ BreakerInit
    /\ FetchIdle
    /\ SearchIdle
    /\ CascadeIdle
    /\ FilterIdle
    /\ ScoreIdle
    /\ ServiceIdle

\* find_jobs_v2, step 3: unique_jobs = self._deduplicate_fuzzy(all_jobs)
Deduplicate ==
    /\ phase = "aggregated"
    /\ unique_jobs' = _deduplicate_fuzzy(all_jobs)
    /\ phase' = "deduplicated"
    /\ UNCHANGED <<all_jobs, rerun_jobs>>
    /\ UNCHANGED not_dedup_vars

\* _deduplicate_fuzzy applied to its own output.
DeduplicateAgain ==
    /\ phase = "deduplicated"
    /\ rerun_jobs' = _deduplicate_fuzzy(unique_jobs)
    /\ phase' = "rerun"
    /\ UNCHANGED <<all_jobs, unique_jobs>>
    /\ UNCHANGED not_dedup_vars

DedupNext == Deduplicate \/ DeduplicateAgain

DedupSpec == DedupInit /\ [][DedupNext]_vars

(***************************************************************************)
(* Properties of the deduplicator.                                         *)
(***************************************************************************)
Deduplicated == phase \in {"deduplicated", "rerun"}

\* Two postings are the same opening: same slug, title ratio above 90.
SameOpening(p, q) ==
    /\ CompanySlug(p) = CompanySlug(q)
    /\ fuzz_ratio(JobTitleLower(p), JobTitleLower(q)) > 90

InSeq(x, seq) == \E i \in 1..Len(seq) : seq[i] = x

FilterSlug(jobs, slug) == SelectSeq(jobs, LAMBDA j : CompanySlug(j) = slug)

\* C1: the output of _deduplicate_fuzzy contains no two postings that are the
\* same opening (same company slug, title similarity ratio above 90).
C1_NoDuplicateOpenings ==
    Deduplicated =>
        \A i, j \in 1..Len(unique_jobs) :
            i < j => ~SameOpening(unique_jobs[i], unique_jobs[j])

\* C2: no two postings in the deduplicator's output have the same url.
C2_UrlUnique ==
    Deduplicated =>
        \A i, j \in 1..Len(unique_jobs) :
            i < j => unique_jobs[i].url # unique_jobs[j].url

\* C3: deduplicating an already deduplicated list returns it unchanged.
C3_Idempotent ==
    phase = "rerun" => rerun_jobs = unique_jobs

\* C4: of two duplicate input postings whose dates both parse, the one with
\* the earlier date is never in the output.
C4_LatestSurvives ==
    Deduplicated =>
        \A i, j \in 1..Len(all_jobs) :
            LET p == all_jobs[i]
                q == all_jobs[j]
                dp == _parse_date(p.date_posted)
                dq == _parse_date(q.date_posted)
            IN (SameOpening(p, q) /\ dp.ok /\ dq.ok /\ dp.day < dq.day)
                   => ~InSeq(p, unique_jobs)

\* C5: postings with different company slugs are never merged: the output
\* restricted to one slug is the deduplication of the input restricted to
\* that slug, so no posting is dropped or replaced because of a posting of
\* another company, and postings whose slugs are all distinct are all kept.
C5_DifferentCompaniesKept ==
    phase = "deduplicated" =>
        LET slugs == [i \in 1..Len(all_jobs) |-> CompanySlug(all_jobs[i])] IN
        /\ \A slug \in {slugs[i] : i \in 1..Len(all_jobs)} :
               FilterSlug(unique_jobs, slug) = _deduplicate_fuzzy(FilterSlug(all_jobs, slug))
        /\ (\A i, j \in 1..Len(all_jobs) : i < j => slugs[i] # slugs[j])
               => unique_jobs = all_jobs

\* Two postings with the same title and different company slugs went through
\* the deduplicator and both are in its output.
C5_Witness ==
    /\ phase = "deduplicated"
    /\ \E i, j \in 1..Len(all_jobs) :
           /\ i < j
           /\ JobTitleLower(all_jobs[i]) = JobTitleLower(all_jobs[j])
           /\ CompanySlug(all_jobs[i]) # CompanySlug(all_jobs[j])
           /\ InSeq(all_jobs[i], unique_jobs)
           /\ InSeq(all_jobs[j], unique_jobs)
           /\ Len(unique_jobs) < Len(all_jobs)

(***************************************************************************)
(* The breaker on its own: no search is running.                           *)
(***************************************************************************)
BreakerSpecInit ==
    /\ DedupIdle
    /\ BreakerInit
    /\ FetchIdle
    /\ SearchIdle
    /\ CascadeIdle
    /\ FilterIdle
    /\ ScoreIdle
    /\ ServiceIdle

BreakerNext ==
    \/ \E c \in Callers : CallEnter(c)
    \/ \E c \in Callers : CallSuccess(c)
    \/ \E c \in Callers : CallFailure(c)
    \/ Reset
    \/ Tick

BreakerSpec == BreakerSpecInit /\ [][BreakerNext]_vars

(***************************************************************************)
(* Properties of the circuit breaker.                                      *)
(***************************************************************************)
Probes == {c \in Callers : calls[c] = "HALF_OPEN"}

\* C6: the breaker goes from CLOSED to OPEN only when the number of
\* consecutive failed calls (no successful call in between) has reached
\* failure_threshold.
C6_OpensOnlyOnConsecutiveFailures ==
    [][(state = "CLOSED" /\ state' = "OPEN")
           => consec_failures' >= failure_threshold]_vars

\* C7: after failure_threshold consecutive failed calls the breaker is OPEN,
\* and while it is OPEN and no more than recovery_timeout has passed since
\* the last failure, no call starts the wrapped function.
C7_OpenShortCircuits ==
    /\ [](  (last_event.kind = "failure" /\ consec_failures >= failure_threshold)
          => state = "OPEN")
    /\ [][(state = "OPEN" /\ now - last_failure_time.t <= recovery_timeout)
             => \A c \in Callers : calls[c] = "idle" => calls'[c] = "idle"]_vars

\* failure_threshold failures in a row opened the circuit and a call made
\* before the cooldown elapsed was refused.
C7_Witness ==
    /\ state = "OPEN"
    /\ consec_failures >= failure_threshold
    /\ now - last_failure_time.t <= recovery_timeout
    /\ last_event.kind = "short_circuit"

\* C8: a call that comes when the breaker is OPEN and the cooldown has elapsed
\* is let through as a probe, and when a probe succeeds the breaker is CLOSED
\* with failure_count = 0.
C8_ProbeSuccessCloses ==
    /\ (last_event.kind = "invoked" /\ last_event.admitted = "HALF_OPEN")
           => state = "HALF_OPEN"
    /\ (last_event.kind = "success" /\ last_event.admitted = "HALF_OPEN")
           => (state = "CLOSED" /\ failure_count = 0)

\* C9: when a probe fails the breaker is OPEN and the cooldown restarts at
\* the time of that failure.
C9_ProbeFailureReopens ==
    (last_event.kind = "failure" /\ last_event.admitted = "HALF_OPEN")
        => (state = "OPEN" /\ last_failure_time.set)

\* C10: at most one probe is in flight at any time.
C10_SingleProbe ==
    Cardinality(Probes) <= 1

\* C36: a CLOSED breaker has fewer than failure_threshold failures counted;
\* an OPEN or HALF_OPEN breaker has at least failure_threshold and its
\* last_failure_time is set.
C36_StateMatchesCount ==
    /\ state = "CLOSED" => failure_count < failure_threshold
    /\ state \in {"OPEN", "HALF_OPEN"} =>
         (failure_count >= failure_threshold /\ last_failure_time.set)

\* Two calls are in flight on a HALF_OPEN breaker, one of them admitted
\* before the circuit opened.
C36_Witness ==
    /\ state = "HALF_OPEN"
    /\ failure_count >= failure_threshold
    /\ \E c, d \in Callers : calls[c] = "CLOSED" /\ calls[d] = "HALF_OPEN"

\* C37: the breaker goes from HALF_OPEN to CLOSED, or has its failure_count
\* reset by a success, only when the call that succeeded was admitted while
\* the breaker was HALF_OPEN.
C37_OnlyProbeCloses ==
    [][(/\ last_event'.kind = "success"
        /\ \/ state = "HALF_OPEN" /\ state' = "CLOSED"
           \/ failure_count' # failure_count)
          => last_event'.admitted = "HALF_OPEN"]_vars

(***************************************************************************)
(* resilient_get under RETRY_CONFIG, and the three source adapters that    *)
(* call it through a circuit breaker.  One attempt is client.get followed  *)
(* by response.raise_for_status().                                         *)
(***************************************************************************)
MaxTitles == 2   \* titles _search_active_jobs_db queries in one search

\* stop=stop_after_attempt(3)
stop_after_attempt == 3

\* What one attempt ends in: a response that raise_for_status accepts, or an
\* exception of class cls (an HTTPStatusError carries the response status).
Outcomes ==
    { [cls |-> "none", status |-> 200],
      [cls |-> "TimeoutException", status |-> 0],
      [cls |-> "ConnectError", status |-> 0],
      [cls |-> "ReadError", status |-> 0],
      [cls |-> "HTTPStatusError", status |-> 404],
      [cls |-> "HTTPStatusError", status |-> 429],
      [cls |-> "HTTPStatusError", status |-> 503] }

\* retry=retry_if_exception_type((TimeoutException, ConnectError,
\*                                HTTPStatusError))
retry_if_exception_type(o) ==
    o.cls \in {"TimeoutException", "ConnectError", "HTTPStatusError"}

\* What resilient_get does after an attempt with outcome o, the n-th of the
\* call: return the response, try again, or raise.  tenacity raises the
\* exception itself when it is not of a retried class, and RetryError
\* (reraise is not set) when the attempts are used up.
AfterAttempt(o, n) ==
    IF o.cls = "none" THEN [do |-> "return", exc |-> "none"]
    ELSE IF ~retry_if_exception_type(o) THEN [do |-> "raise", exc |-> o.cls]
    ELSE IF n >= stop_after_attempt THEN [do |-> "raise", exc |-> "RetryError"]
    ELSE [do |-> "retry", exc |-> "none"]

\* isinstance(exc, cls) for the classes that occur.
IsInstance(exc, cls) == cls = "Exception" \/ exc = cls

ExceptClauses_Specific == {"TimeoutException", "HTTPStatusError"}

\* The except clauses around the call, the same in the three adapters.
ExceptClauses == {"TimeoutException", "HTTPStatusError", "Exception"}

Adapters == {"jsearch", "active_jobs", "serpapi"}

NoDateString == [fmt |-> "none", f1 |-> 0, f2 |-> 0, f3 |-> 0]

\* _get_mock_jobs()
_get_mock_jobs ==
    << [title |-> <<"M", "o", "c", "k", " ", "J", "o", "b">>,
        company |-> <<"M", "o", "c", "k", " ", "C", "o", "r", "p">>,
        url |-> "http://test.com", date_posted |-> NoDateString] >>

\* The body of a 2xx response: JSON of the expected shape holding the
\* postings jobs, or something the adapter's parsing code raises on.
Payloads ==
    { [valid |-> FALSE, jobs |-> <<>>],
      [valid |-> TRUE, jobs |-> <<>>],
      [valid |-> TRUE,
       jobs |-> << [title |-> <<"a", "b", "c", "d", "e", "f">>,
                    company |-> <<"c">>, url |-> "#",
                    date_posted |-> NoDateString] >>] }

\* An adapter is called.  Without its API key _call_jsearch_api returns the
\* mock postings and the other two return [] without any request.
FetchBegin(a, configured) ==
    /\ fetch_pc \in {"idle", "returned"}
    /\ adapter' = a
    /\ attempts' = <<>>
    /\ fetch_exc' = "none"
    /\ contribution' = <<>>
    /\ escaped' = FALSE
    /\ IF configured
       THEN /\ all_found' = <<>>
            /\ titles_left' \in IF a = "active_jobs" THEN 1..MaxTitles ELSE {1}
            /\ fetch_pc' = "calling"
       ELSE /\ all_found' = IF a = "jsearch" THEN _get_mock_jobs ELSE <<>>
            /\ titles_left' = 0
            /\ fetch_pc' = "returned"
    /\ UNCHANGED <<not_fetch_vars, breaker_vars>>

\* circuit.call(resilient_get, ...) up to its await.
CircuitCall ==
    /\ fetch_pc = "calling"
    /\ LET st == _check_recovery(state, last_failure_time, now) IN
       /\ state' = st
       /\ IF CircuitIsOpen(st)
          THEN /\ fetch_exc' = "Exception"
               /\ fetch_pc' = "raised"
               /\ calls' = calls
               /\ last_event' = [kind |-> "short_circuit", admitted |-> "idle"]
          ELSE /\ fetch_exc' = "none"
               /\ fetch_pc' = "trying"
               /\ calls' = [calls EXCEPT ![1] = st]
               /\ last_event' = [kind |-> "invoked", admitted |-> st]
    /\ attempts' = <<>>
    /\ UNCHANGED <<failure_count, last_failure_time, now, consec_failures>>
    /\ UNCHANGED <<adapter, titles_left, contribution, all_found, escaped>>
    /\ UNCHANGED not_fetch_vars

\* One attempt of resilient_get ends with outcome o.  When it ends the call,
\* the breaker's call() resumes and records the success or the failure.
Attempt(o) ==
    /\ fetch_pc = "trying"
    /\ attempts' = Append(attempts, o)
    /\ LET next == AfterAttempt(o, Len(attempts) + 1) IN
       CASE next.do = "retry" ->
              /\ UNCHANGED <<fetch_pc, fetch_exc, breaker_vars>>
         [] next.do = "return" ->
              /\ fetch_pc' = "parsing"
              /\ fetch_exc' = "none"
              /\ IF state = "HALF_OPEN"
                 THEN state' = "CLOSED" /\ failure_count' = 0
                 ELSE UNCHANGED <<state, failure_count>>
              /\ calls' = [calls EXCEPT ![1] = "idle"]
              /\ consec_failures' = 0
              /\ last_event' = [kind |-> "success", admitted |-> calls[1]]
              /\ UNCHANGED <<last_failure_time, now>>
         [] next.do = "raise" ->
              /\ failure_count < MaxFailureCount
              /\ fetch_pc' = "raised"
              /\ fetch_exc' = next.exc
              /\ failure_count' = failure_count + 1
              /\ last_failure_time' = [set |-> TRUE, t |-> now]
              /\ state' = IF failure_count + 1 >= failure_threshold
                          THEN "OPEN" ELSE state
              /\ calls' = [calls EXCEPT ![1] = "idle"]
              /\ consec_failures' = consec_failures + 1
              /\ last_event' = [kind |-> "failure", admitted |-> calls[1]]
              /\ UNCHANGED now
    /\ UNCHANGED <<adapter, titles_left, contribution, all_found, escaped>>
    /\ UNCHANGED not_fetch_vars

\* resp.json() and the _parse_*_results call, inside the try block.
Parse(p) ==
    /\ fetch_pc = "parsing"
    /\ IF p.valid
       THEN /\ contribution' = p.jobs
            /\ all_found' = all_found \o p.jobs
            /\ fetch_pc' = "call_done"
            /\ fetch_exc' = "none"
       ELSE /\ fetch_exc' = "ParseError"
            /\ fetch_pc' = "raised"
            /\ UNCHANGED <<contribution, all_found>>
    /\ UNCHANGED <<adapter, titles_left, attempts, escaped>>
    /\ UNCHANGED <<not_fetch_vars, breaker_vars>>

\* The exception reaches the except clauses of the adapter: a clause that
\* matches logs it and the call contributes nothing.
Except ==
    /\ fetch_pc = "raised"
    /\ IF \E cls \in ExceptClauses : IsInstance(fetch_exc, cls)
       THEN /\ contribution' = <<>>
            /\ fetch_pc' = "call_done"
            /\ escaped' = FALSE
       ELSE /\ escaped' = TRUE
            /\ fetch_pc' = "returned"
            /\ UNCHANGED contribution
    /\ UNCHANGED <<adapter, titles_left, attempts, fetch_exc, all_found>>
    /\ UNCHANGED <<not_fetch_vars, breaker_vars>>

\* _search_active_jobs_db goes on with its next title; the adapter returns
\* after the last one.
CallDone ==
    /\ fetch_pc = "call_done"
    /\ titles_left' = titles_left - 1
    /\ fetch_pc' = IF titles_left > 1 THEN "calling" ELSE "returned"
    /\ UNCHANGED <<adapter, attempts, fetch_exc, contribution, all_found,
                   escaped>>
    /\ UNCHANGED <<not_fetch_vars, breaker_vars>>

FetchInit ==
    /\ DedupIdle
    /\ BreakerInit
    /\ FetchIdle
    /\ SearchIdle
    /\ CascadeIdle
    /\ FilterIdle
    /\ ScoreIdle
    /\ ServiceIdle

FetchNext ==
    \/ \E a \in Adapters, configured \in BOOLEAN : FetchBegin(a, configured)
    \/ CircuitCall
    \/ \E o \in Outcomes : Attempt(o)
    \/ \E p \in Payloads : Parse(p)
    \/ Except
    \/ CallDone
    \/ Tick

FetchSpec == FetchInit /\ [][FetchNext]_vars

(***************************************************************************)
(* Properties of resilient_get and of the adapters.                        *)
(***************************************************************************)
\* a response with a 4xx status other than 429
ClientError(o) ==
    o.cls = "HTTPStatusError" /\ o.status \in 400..499 /\ o.status # 429

\* C11: an attempt that ends in a 4xx status other than 429 is the only
\* attempt of its call: it is the first one and none follows it.
C11_NoRetryOn4xx ==
    \A i \in 1..Len(attempts) :
        ClientError(attempts[i]) => (i = 1 /\ Len(attempts) = 1)

\* C12: no exception leaves an adapter, and a call that failed (timeout,
\* HTTP error status, circuit OPEN, malformed payload) contributed no
\* posting.
C12_AdaptersNeverRaise ==
    /\ ~escaped
    /\ (fetch_pc = "call_done" /\ fetch_exc # "none") => contribution = <<>>

\* _search_active_jobs_db returned the postings of its first title although
\* the call for its last title failed after all its attempts.
C12_Witness ==
    /\ adapter = "active_jobs"
    /\ fetch_pc = "returned"
    /\ fetch_exc = "RetryError"
    /\ Len(attempts) = stop_after_attempt
    /\ all_found # <<>>
    /\ ~escaped

(***************************************************************************)
(* find_jobs_v2, steps 1 and 2: one task per source, joined by             *)
(* asyncio.gather, and the aggregation of what the tasks returned.         *)
(***************************************************************************)
MaxSourceJobs == 1   \* postings one source returns

source_names == <<"jsearch", "active_jobs", "serpapi">>

\* source_tasks: SerpAPI is searched only when its key is configured.
NumSources(key) == IF key THEN 3 ELSE 2

WithSource(job, src) ==
    [title |-> job.title, company |-> job.company, url |-> job.url,
     date_posted |-> job.date_posted, source |-> src]

\* The postings source i builds: _parse_serpapi_results fills in the source,
\* the other parsers leave it None ("").
SourceOffers(i) ==
    { WithSource(j, IF source_names[i] = "serpapi" THEN "serpapi" ELSE "") :
        j \in { u \in UnlinkedOffers : u.date_posted.fmt = "none" } }

Pending == [st |-> "pending", jobs |-> <<>>]

\* How the task of source i can end: it returns a list or it raises.
SourceOutcomes(i) ==
    { [st |-> "exception", jobs |-> <<>>] } \cup
    { [st |-> "list", jobs |-> l] :
        l \in UNION { [1..n -> SourceOffers(i)] : n \in 0..MaxSourceJobs } }

return_exceptions_Off == FALSE

\* asyncio.gather(*source_tasks, return_exceptions=True)
return_exceptions == TRUE

\* if not job.source: job.source = source
TagSource(jobs, source) ==
    [k \in 1..Len(jobs) |->
        IF jobs[k].source = "" THEN WithSource(jobs[k], source) ELSE jobs[k]]

\* The aggregation loop over results[i..]: a result that is an exception is
\* logged and skipped.
RECURSIVE AggregateLoop(_, _, _)
AggregateLoop(res, i, acc) ==
    IF i > Len(res) THEN acc
    ELSE IF res[i].st = "exception" THEN AggregateLoop(res, i + 1, acc)
    ELSE AggregateLoop(res, i + 1, acc \o TagSource(res[i].jobs, source_names[i]))

\* The task of source i ends.  gather holds an exception as that task's
\* result when return_exceptions is set and lets it out at once otherwise.
SourceFinish(i, r) ==
    /\ phase = "gathering"
    /\ i \in 1..Len(results)
    /\ results[i] = Pending
    /\ IF r.st = "exception" /\ ~return_exceptions
       THEN /\ search_raised' = TRUE
            /\ phase' = "raised"
            /\ UNCHANGED results
       ELSE /\ results' = [results EXCEPT ![i] = r]
            /\ UNCHANGED <<search_raised, phase>>
    /\ UNCHANGED <<all_jobs, unique_jobs, rerun_jobs, serpapi_key>>
    /\ UNCHANGED not_search_vars

\* gather returns when every task has ended; find_jobs_v2 aggregates and
\* returns [] when no source found anything.
Aggregate ==
    /\ phase = "gathering"
    /\ \A i \in 1..Len(results) : results[i] # Pending
    /\ all_jobs' = AggregateLoop(results, 1, <<>>)
    /\ phase' = IF all_jobs' = <<>> THEN "returned" ELSE "aggregated"
    /\ UNCHANGED <<unique_jobs, rerun_jobs, search_vars>>
    /\ UNCHANGED not_search_vars

SearchInit ==
    /\ serpapi_key \in BOOLEAN
    /\ results = [i \in 1..NumSources(serpapi_key) |-> Pending]
    /\ search_raised = FALSE
    /\ all_jobs = <<>>
    /\ unique_jobs = <<>>
    /\ rerun_jobs = <<>>
    /\ phase = "gathering"
    /\ BreakerInit
    /\ FetchIdle
    /\ CascadeIdle
    /\ FilterIdle
    /\ ScoreIdle
    /\ ServiceIdle

SearchNext ==
    \/ \E i \in 1..Len(source_names) : \E r \in SourceOutcomes(i) : SourceFinish(i, r)
    \/ Aggregate
    \/ Deduplicate

SearchSpec == SearchInit /\ [][SearchNext]_vars

(***************************************************************************)
(* Properties of the aggregation.                                          *)
(***************************************************************************)
\* The number of postings the sources before i returned.
RECURSIVE Offset(_, _)
Offset(res, i) ==
    IF i <= 1 THEN 0 ELSE Offset(res, i - 1) + Len(res[i - 1].jobs)

SamePosting(p, q) ==
    /\ p.title = q.title
    /\ p.company = q.company
    /\ p.url = q.url
    /\ p.date_posted = q.date_posted

\* C13: nothing is raised out of find_jobs_v2 whatever the sources do, the
\* aggregation waits for every source, and the aggregate holds, source after
\* source, every posting of every source that returned a list.
C13_WaitForAllTolerateFailure ==
    /\ ~search_raised
    /\ phase # "gathering" => \A i \in 1..Len(results) : results[i] # Pending
    /\ phase \in {"aggregated", "returned"} =>
          /\ Len(all_jobs) = Offset(results, Len(results) + 1)
          /\ \A i \in 1..Len(results) : \A k \in 1..Len(results[i].jobs) :
                SamePosting(all_jobs[Offset(results, i) + k], results[i].jobs[k])

\* One source raised, and the postings of the two others are all there.
C13_Witness ==
    /\ phase = "aggregated"
    /\ Len(results) = 3
    /\ results[2].st = "exception"
    /\ results[1].jobs # <<>>
    /\ results[3].jobs # <<>>
    /\ Len(all_jobs) = 2

(***************************************************************************)
(* _search_jsearch_strategy: up to three _call_jsearch_api queries.  Only  *)
(* the url of a posting is read here.                                      *)
(***************************************************************************)
MaxApiJobs == 2   \* postings of a short JSearch answer

\* if len(jobs) < 5
MinResults == 5

UrlOf == <<"u1", "u2", "u3", "u4", "u5", "#">>

\* An answer of MinResults postings and one of a posting less.
FullPage == [i \in 1..MinResults |-> [url |-> UrlOf[i]]]

NearPage == SubSeq(FullPage, 1, MinResults - 1)

\* What _call_jsearch_api may return: short lists in which urls repeat ("#"
\* stands for a posting without apply link) and the two long ones.
ApiResponses ==
    UNION { [1..n -> { [url |-> u] : u \in {"u1", "u2", "#"} }] :
              n \in 0..MaxApiJobs }
      \cup {FullPage, NearPage}

NeedsWider_Always(js) == TRUE

\* TENTATIVE 2 is made when the list has fewer than 5 postings.
NeedsWider(js) == Len(js) < MinResults

\* Fusion: existing_urls is taken once, before the loop.
Merge(js, jobs_large) ==
    LET existing_urls == { js[k].url : k \in 1..Len(js) } IN
    js \o SelectSeq(jobs_large, LAMBDA j : j.url \notin existing_urls)

\* TENTATIVE 1: the expert query with the job_type filter, when the
\* candidate's contract type has one.
Rung1(resp) ==
    /\ cascade_pc = "rung1"
    /\ IF jsearch_type
       THEN /\ jsearch_jobs' = resp
            /\ rung_log' = Append(rung_log, [rung |-> 1, got |-> resp])
       ELSE UNCHANGED <<jsearch_jobs, rung_log>>
    /\ cascade_pc' = "rung2"
    /\ UNCHANGED <<jsearch_type, merged>>
    /\ UNCHANGED not_cascade_vars

\* TENTATIVE 2: the expert query without the filter, merged into the list.
Rung2(resp) ==
    /\ cascade_pc = "rung2"
    /\ IF NeedsWider(jsearch_jobs)
       THEN /\ jsearch_jobs' = Merge(jsearch_jobs, resp)
            /\ rung_log' = Append(rung_log, [rung |-> 2, got |-> resp])
       ELSE UNCHANGED <<jsearch_jobs, rung_log>>
    /\ merged' = jsearch_jobs'
    /\ cascade_pc' = "rung3"
    /\ UNCHANGED jsearch_type
    /\ UNCHANGED not_cascade_vars

\* TENTATIVE 3: the simple query, when there is still nothing.
Rung3(resp) ==
    /\ cascade_pc = "rung3"
    /\ IF jsearch_jobs = <<>>
       THEN /\ jsearch_jobs' = resp
            /\ rung_log' = Append(rung_log, [rung |-> 3, got |-> resp])
       ELSE UNCHANGED <<jsearch_jobs, rung_log>>
    /\ cascade_pc' = "done"
    /\ UNCHANGED <<jsearch_type, merged>>
    /\ UNCHANGED not_cascade_vars

CascadeInit ==
    /\ jsearch_type \in BOOLEAN
    /\ cascade_pc = "rung1"
    /\ jsearch_jobs = <<>>
    /\ merged = <<>>
    /\ rung_log = <<>>
    /\ DedupIdle
    /\ BreakerInit
    /\ FetchIdle
    /\ SearchIdle
    /\ FilterIdle
    /\ ScoreIdle
    /\ ServiceIdle

CascadeNext ==
    \/ \E resp \in ApiResponses : Rung1(resp)
    \/ \E resp \in ApiResponses : Rung2(resp)
    \/ \E resp \in ApiResponses : Rung3(resp)

CascadeSpec == CascadeInit /\ [][CascadeNext]_vars

(***************************************************************************)
(* Properties of the cascade.                                              *)
(***************************************************************************)
Issued(r) == \E k \in 1..Len(rung_log) : rung_log[k].rung = r

\* What rung r returned; nothing when it was not issued.
Yield(r) ==
    IF Issued(r)
    THEN (CHOOSE e \in { rung_log[k] : k \in 1..Len(rung_log) } : e.rung = r).got
    ELSE <<>>

\* C14: the rungs are issued in increasing order; rung 2 is issued iff rung 1
\* yielded fewer than MinResults postings, rung 3 iff the list is still
\* empty after rung 2.
C14_RungsOnlyWhenNeeded ==
    /\ \A k \in 1..Len(rung_log) - 1 : rung_log[k].rung < rung_log[k + 1].rung
    /\ cascade_pc = "rung1" => rung_log = <<>>
    /\ cascade_pc = "rung2" => ~Issued(2) /\ ~Issued(3)
    /\ cascade_pc \in {"rung3", "done"} =>
          (Issued(2) <=> Len(Yield(1)) < MinResults)
    /\ cascade_pc = "rung3" => ~Issued(3)
    /\ cascade_pc = "done" => (Issued(3) <=> merged = <<>>)

\* Rung 1 gave a posting less than MinResults, so rung 2 was issued, and
\* rung 3 was not.
C14_Witness ==
    /\ cascade_pc = "done"
    /\ Len(Yield(1)) = MinResults - 1
    /\ Issued(2)
    /\ ~Issued(3)

\* C15: after the merge of rung 2 the postings of rung 1 are still there, in
\* their order, at the head of the list, and no two postings of the list
\* have the same url.
C15_MergeNewUrlsOnly ==
    (cascade_pc \in {"rung3", "done"} /\ Issued(2)) =>
        /\ Len(merged) >= Len(Yield(1))
        /\ SubSeq(merged, 1, Len(Yield(1))) = Yield(1)
        /\ \A i, j \in 1..Len(merged) : merged[i].url = merged[j].url => i = j

(***************************************************************************)
(* _apply_smart_filters and its helpers.                                   *)
(***************************************************************************)
MaxFilterJobs == 2   \* postings in the list to filter

\* pattern in description
Contains(s, pat) ==
    \E i \in 0..(Len(s) - Len(pat)) : SubSeq(s, i + 1, i + Len(pat)) = pat

AGENCY_PATTERNS ==
    { <<"n", "o", "t", "r", "e", " ", "c", "l", "i", "e", "n", "t">>,
      <<"p", "o", "u", "r", " ", "l", "e", " ", "c", "o", "m", "p", "t", "e", " ", "d", "e">>,
      <<"n", "o", "t", "r", "e", " ", "p", "a", "r", "t", "e", "n", "a", "i", "r", "e">>,
      <<"c", "a", "b", "i", "n", "e", "t", " ", "d", "e", " ", "r", "e", "c", "r", "u", "t", "e", "m", "e", "n", "t">>,
      <<"n", "o", "t", "r", "e", " ", "m", "a", "n", "d", "a", "n", "t">>,
      <<"c", "l", "i", "e", "n", "t", " ", "f", "i", "n", "a", "l">>,
      <<"n", "o", "u", "s", " ", "r", "e", "c", "r", "u", "t", "o", "n", "s", " ", "p", "o", "u", "r">>,
      <<"p", "o", "u", "r", " ", "l", "'", "u", "n", " ", "d", "e", " ", "n", "o", "s", " ", "c", "l", "i", "e", "n", "t", "s">>,
      <<"n", "o", "t", "r", "e", " ", "c", "l", "i", "e", "n", "t", " ", "r", "e", "c", "h", "e", "r", "c", "h", "e">>,
      <<"n", "o", "u", "s", " ", "r", "e", "c", "h", "e", "r", "c", "h", "o", "n", "s", " ", "p", "o", "u", "r", " ", "n", "o", "t", "r", "e", " ", "c", "l", "i", "e", "n", "t">> }

salary_keywords ==
    { <<"€">>,
      <<"e", "u", "r">>,
      <<"e", "u", "r", "o", "s">>,
      <<"k", "€">>,
      <<"s", "a", "l", "a", "i", "r", "e">>,
      <<"r", "é", "m", "u", "n", "é", "r", "a", "t", "i", "o", "n">>,
      <<"p", "a", "c", "k", "a", "g", "e">>,
      <<"f", "i", "x", "e">>,
      <<"v", "a", "r", "i", "a", "b", "l", "e">>,
      <<"b", "r", "u", "t">>,
      <<"n", "e", "t">> }

_has_salary_info(description) ==
    \E kw \in salary_keywords : Contains(description, kw)

_is_agency(description) ==
    \E pattern \in AGENCY_PATTERNS : Contains(description, pattern)

_is_title_match_RatioOnly(job_title, cand_title) ==
    fuzz_ratio(lower(job_title), lower(cand_title)) > 85

\* candidate_lower in job_lower or fuzz.ratio(job_lower, candidate_lower) > 85
_is_title_match(job_title, cand_title) ==
    \/ Contains(lower(job_title), lower(cand_title))
    \/ fuzz_ratio(lower(job_title), lower(cand_title)) > 85

\* filters.get(key, default)
Get(opt, default) == IF opt.set THEN opt.v ELSE default

\* job_date < cutoff_date, cutoff_date = datetime.now() - timedelta(days):
\* a parsed date is a midnight, so a posting of the cutoff day is before the
\* cutoff as soon as the clock is past midnight.
BeforeCutoff(job_date, t, days) ==
    \/ job_date.day < t.day - days
    \/ job_date.day = t.day - days /\ t.pm

ExcludeAgency_Never(exclude_agencies, is_agency) == FALSE

\* if exclude_agencies and job.is_agency: continue
ExcludeAgency(exclude_agencies, is_agency) == exclude_agencies /\ is_agency

\* filters.get("max_days_old", 14)
default_max_days_old == 14

\* The first half of the loop body: the two flags are set on the posting
\* itself, whether it is kept or not.
Flag(job) ==
    [job EXCEPT !.salary_warning = ~_has_salary_info(lower(job.description)),
                !.is_agency = _is_agency(lower(job.description))]

\* The cutoff test of the loop body.
TooOld(job, cand_title, t, max_days_old) ==
    LET job_date == _parse_date(job.date_posted) IN
    /\ job_date.ok
    /\ BeforeCutoff(job_date, t, max_days_old)
    /\ ~_is_title_match(job.title, cand_title)

_apply_smart_filters(js, flt, cand_title, t) ==
    LET exclude_agencies == Get(flt.exclude_agencies, TRUE)
        max_days_old == Get(flt.max_days_old, default_max_days_old)
        flagged == [k \in 1..Len(js) |-> Flag(js[k])]
        Keep(job) == /\ ~ExcludeAgency(exclude_agencies, job.is_agency)
                     /\ ~TooOld(job, cand_title, t, max_days_old)
    IN  [mutated |-> flagged, result |-> SelectSeq(flagged, Keep)]

\* The postings to filter, as the parsers build them: flags at their
\* defaults, a date that is missing, in one of the two formats, or text that
\* is no date.
FilterTitles ==
    { <<"A", "b", "c", "d", "e", "f", "g">>,
      <<"b", "c", "d", "e", "f", "g">> }

CandidateTitles ==
    { <<"a", "b", "c", "d", "e", "f">>,
      <<"A", "b", "c">> }

FilterDates == DateStrings \cup { [fmt |-> "text", f1 |-> 0, f2 |-> 0, f3 |-> 0] }

\* Postings without agency phrase or salary under every title and date, the
\* agency's postings with a date, in ISO format or as text, and a posting
\* that states a salary.
PlainOffers ==
    [title : FilterTitles, description : { <<"C", "D", "I">> },
     date_posted : FilterDates, salary_warning : {FALSE}, is_agency : {FALSE}]

AgencyOffers ==
    { o \in [title : FilterTitles,
             description : { <<"P", "o", "u", "r", " ", "N", "o", "t", "r", "e", " ", "C", "l", "i", "e", "n", "t">> },
             date_posted : { d \in FilterDates : d.fmt \in {"iso", "text"} },
             salary_warning : {FALSE}, is_agency : {FALSE}] :
        o.date_posted.fmt = "text" => o.title = <<"b", "c", "d", "e", "f", "g">> }

SalaryOffers ==
    [title : { <<"A", "b", "c", "d", "e", "f", "g">> },
     description : { <<"C", "D", "I", " ", "3", "k", "€", " ", "N", "e", "t">> },
     date_posted : { d \in FilterDates : d.fmt = "none" },
     salary_warning : {FALSE}, is_agency : {FALSE}]

FilterOffers == PlainOffers \cup AgencyOffers \cup SalaryOffers

FilterDicts ==
    [exclude_agencies : {AbsentFlag, [set |-> TRUE, v |-> TRUE],
                         [set |-> TRUE, v |-> FALSE]},
     max_days_old : {Absent, [set |-> TRUE, v |-> 20]}]

\* The search runs on 30 January 2024.
Clocks == [day : {Ordinal(2024, 1, 30)}, pm : BOOLEAN]

ApplyFilters ==
    /\ filter_pc = "input"
    /\ LET out == _apply_smart_filters(unfiltered, filters, candidate_title,
                                       clock) IN
       /\ unfiltered' = out.mutated
       /\ filtered' = out.result
    /\ filter_pc' = "filtered"
    /\ UNCHANGED <<candidate_title, filters, clock>>
    /\ UNCHANGED not_filter_vars

FilterInit ==
    /\ filter_pc = "input"
    /\ candidate_title \in CandidateTitles
    /\ filters \in FilterDicts
    /\ clock \in Clocks
    /\ unfiltered \in UNION { [1..n -> FilterOffers] : n \in 0..MaxFilterJobs }
    /\ filtered = <<>>
    /\ DedupIdle
    /\ BreakerInit
    /\ FetchIdle
    /\ SearchIdle
    /\ CascadeIdle
    /\ ScoreIdle
    /\ ServiceIdle

FilterNext == ApplyFilters

FilterSpec == FilterInit /\ [][FilterNext]_vars

(***************************************************************************)
(* Properties of the filters.                                              *)
(***************************************************************************)
AgencyPhrase(job) == _is_agency(lower(job.description))

\* The posting got as far as the cutoff test.
ReachedCutoff(job) ==
    ~(Get(filters.exclude_agencies, TRUE) /\ AgencyPhrase(job))

\* The parsed date is more than max_days_old days before the clock (in
\* half days).
OlderThanMax(job) ==
    LET d == _parse_date(job.date_posted)
        half == IF clock.pm THEN 1 ELSE 0
    IN  /\ d.ok
        /\ 2 * (clock.day - d.day) + half
              > 2 * Get(filters.max_days_old, default_max_days_old)

NearExact(job) ==
    fuzz_ratio(lower(job.title), lower(candidate_title)) > 85

TitleContained(job) == Contains(lower(job.title), lower(candidate_title))

\* C16: with exclude_agencies true no returned posting has an agency phrase
\* in its description; with exclude_agencies false every posting with an
\* agency phrase is returned, unless it is too old, and has is_agency true.
C16_AgencyFilter ==
    filter_pc = "filtered" =>
      /\ (filters.exclude_agencies.set /\ filters.exclude_agencies.v) =>
            \A k \in 1..Len(filtered) : ~AgencyPhrase(filtered[k])
      /\ (filters.exclude_agencies.set /\ ~filters.exclude_agencies.v) =>
            \A i \in 1..Len(unfiltered) :
               AgencyPhrase(unfiltered[i]) =>
                  /\ unfiltered[i].is_agency
                  /\ \/ InSeq(unfiltered[i], filtered)
                     \/ OlderThanMax(unfiltered[i]) /\ ~NearExact(unfiltered[i])
                          /\ ~TitleContained(unfiltered[i])

\* Of two postings the one written by an agency was left out.
C16_Witness ==
    /\ filter_pc = "filtered"
    /\ filters.exclude_agencies.set /\ filters.exclude_agencies.v
    /\ Len(unfiltered) = 2
    /\ Len(filtered) = 1
    /\ AgencyPhrase(unfiltered[1])
    /\ filtered[1] = unfiltered[2]

Min2_Left(a, b) == a

Min2(a, b) == IF a <= b THEN a ELSE b

\* int(x) of the quotient num / den: truncation towards zero.
IntDiv(num, den) == IF num >= 0 THEN num \div den ELSE -((-num) \div den)

\* str.split(): the maximal runs of characters that are not spaces.
RECURSIVE SplitLoop(_, _, _)
SplitLoop(s, word, acc) ==
    IF s = <<>> THEN (IF word = <<>> THEN acc ELSE Append(acc, word))
    ELSE IF IsSpace(Head(s))
         THEN SplitLoop(Tail(s), <<>>,
                        IF word = <<>> THEN acc ELSE Append(acc, word))
         ELSE SplitLoop(Tail(s), Append(word, Head(s)), acc)

split(s) == SplitLoop(s, <<>>, <<>>)

school_keywords ==
    { <<"f", "o", "r", "m", "a", "t", "i", "o", "n">>,
      <<"é", "c", "o", "l", "e">>,
      <<"c", "f", "a">>,
      <<"c", "a", "m", "p", "u", "s">>,
      <<"a", "c", "a", "d", "e", "m", "y">>,
      <<"b", "o", "o", "t", "c", "a", "m", "p">> }

\* any(kw in desc_lower for kw in school_keywords)
SchoolKeyword(description) ==
    \E kw \in school_keywords : Contains(lower(description), kw)

\* data.get(key, 0) of a score: the value, 0 for a missing key.
ScoreOrZero(v) == IF v.kind = "absent" THEN [kind |-> "int", n |-> 0] ELSE v

SchoolForcesZero_Never(flag) == FALSE

\* data.get("is_school_scheme") is True
SchoolForcesZero(flag) == flag = "true"

\* The weighted score of the LLM reply data, as the try block computes it.
\* ok is FALSE when the arithmetic raises TypeError (a score is a string).
WeightedScore(data) ==
    LET s_tech == ScoreOrZero(data.score_technical)
        s_struct == ScoreOrZero(data.score_structural)
        s_exp == ScoreOrZero(data.score_experience)
    IN  IF s_tech.kind = "int" /\ s_struct.kind = "int" /\ s_exp.kind = "int"
        THEN [ok |-> TRUE,
              final_score |->
                  IF SchoolForcesZero(data.is_school_scheme) THEN 0
                  ELSE IntDiv(s_tech.n * 4 + s_struct.n * 3 + s_exp.n * 3, 10)]
        ELSE [ok |-> FALSE, final_score |-> 0]

\* The heuristic score before the cap.
FallbackScore(cand, o) ==
    LET title == lower(cand.job_title)
        offer_title == lower(o.title)
        words == split(title)
        s1 == IF Contains(offer_title, title) THEN 40 + 20
              ELSE IF \E k \in 1..Len(words) : Contains(offer_title, words[k])
                   THEN 40 + 10
                   ELSE 40
        s2 == IF Contains(lower(o.location), lower(cand.location))
              THEN s1 + 15 ELSE s1
        s3 == IF o.is_remote /\ cand.work_type = "Full Remote"
              THEN s2 + 10 ELSE s2
    IN  IF SchoolKeyword(o.description) THEN Max2(s3 - 30, 0) ELSE s3

_fallback_scoring(cand, o) ==
    LET score == FallbackScore(cand, o)
        v == [kind |-> "int", n |-> score]
    IN  [o EXCEPT !.match_score = Min2(score, 75),
                  !.ai_analysis =
                      [mode |-> "fallback_heuristic", score_technical |-> v,
                       score_structural |-> v, score_experience |-> v,
                       is_school_scheme |-> "absent"]]

\* The values a score of the LLM reply may have: missing, below, inside and
\* above the range 0..100, or a string.
ScoreValues ==
    { NoValue, [kind |-> "int", n |-> -20], [kind |-> "int", n |-> 60],
      [kind |-> "int", n |-> 100], [kind |-> "int", n |-> 150],
      [kind |-> "str", n |-> 80] }

\* The JSON object of the reply; is_school_scheme is missing, true, false or
\* the string "true".
Replies ==
    [score_technical : ScoreValues, score_structural : ScoreValues,
     score_experience : ScoreValues,
     is_school_scheme : {"absent", "true", "false", "str_true"}]

Candidates ==
    [job_title : { <<"A", "b", " ", "c">>, <<"x", "y">> },
     location : { <<"p">> },
     work_type : {"Full Remote", "Tous"}]

Offers ==
    [title : { <<"A", "b", " ", "c", " ", "d">>, <<"A", "B", " ", "C">>,
               <<"C">>, <<"z">> },
     location : { <<"P">>, <<>> },
     description : { <<"C", "F", "A">>, <<"C", "D", "I">> },
     is_remote : BOOLEAN, match_score : {0}, ai_analysis : {NoAnalysis}]

\* if not self.api_key: the simulated analysis.
Mock ==
    /\ score_pc = "analyzing"
    /\ ~api_key
    /\ offer' = [offer EXCEPT !.match_score = 50,
                              !.ai_analysis = [NoAnalysis EXCEPT !.mode = "mock"]]
    /\ score_path' = "mock"
    /\ score_pc' = "scored"
    /\ UNCHANGED <<api_key, candidate>>
    /\ UNCHANGED not_score_vars

\* The LLM answered with the JSON object data: the score is computed and
\* data is stored as the analysis, or the arithmetic raises and the
\* except Exception clause scores by the heuristic.
LLMReply(data) ==
    /\ score_pc = "analyzing"
    /\ api_key
    /\ LET w == WeightedScore(data) IN
       IF w.ok
       THEN /\ offer' = [offer EXCEPT
                           !.match_score = w.final_score,
                           !.ai_analysis =
                               [mode |-> "llm",
                                score_technical |-> data.score_technical,
                                score_structural |-> data.score_structural,
                                score_experience |-> data.score_experience,
                                is_school_scheme |-> data.is_school_scheme]]
            /\ score_path' = "llm"
       ELSE /\ offer' = _fallback_scoring(candidate, offer)
            /\ score_path' = "fallback"
    /\ score_pc' = "scored"
    /\ UNCHANGED <<api_key, candidate>>
    /\ UNCHANGED not_score_vars

\* The request timed out, got an error status, or the reply was no JSON:
\* every except clause returns _fallback_scoring.
LLMFail ==
    /\ score_pc = "analyzing"
    /\ api_key
    /\ offer' = _fallback_scoring(candidate, offer)
    /\ score_path' = "fallback"
    /\ score_pc' = "scored"
    /\ UNCHANGED <<api_key, candidate>>
    /\ UNCHANGED not_score_vars

ScoreInit ==
    /\ score_pc = "analyzing"
    /\ api_key \in BOOLEAN
    /\ candidate \in Candidates
    /\ offer \in Offers
    /\ score_path = "none"
    /\ DedupIdle
    /\ BreakerInit
    /\ FetchIdle
    /\ SearchIdle
    /\ CascadeIdle
    /\ FilterIdle
    /\ ServiceIdle

ScoreNext ==
    \/ Mock
    \/ \E data \in Replies : LLMReply(data)
    \/ LLMFail

ScoreSpec == ScoreInit /\ [][ScoreNext]_vars

(***************************************************************************)
(* Properties of the scoring.                                              *)
(***************************************************************************)
\* A sub-score that the analysis has is a number of 0..100.
InRange(v) == v.kind # "absent" => (v.kind = "int" /\ v.n \in 0..100)

\* C18: the match_score of a scored posting and each sub-score its analysis
\* holds are in 0..100, on the LLM path and on the fallback path.
C18_ScoresInRange ==
    score_pc = "scored" =>
      /\ offer.match_score \in 0..100
      /\ InRange(offer.ai_analysis.score_technical)
      /\ InRange(offer.ai_analysis.score_structural)
      /\ InRange(offer.ai_analysis.score_experience)

C20_FallbackSchoolScoresZero ==
    (score_path = "fallback" /\ SchoolKeyword(offer.description))
        => offer.match_score = 0

\* C22: a posting scored by the fallback whose title is the candidate's
\* title, whose location holds the candidate's location and whose
\* description has no school keyword gets a match_score of 70..75; no
\* fallback score is above 75.
C22_FallbackScoreBounds ==
    score_path = "fallback" =>
      /\ offer.match_score <= 75
      /\ (/\ lower(offer.title) = lower(candidate.job_title)
          /\ Contains(lower(offer.location), lower(candidate.location))
          /\ ~SchoolKeyword(offer.description))
            => offer.match_score \in 70..75

\* The LLM failed for a remote posting with the candidate's own title and
\* location, no school: the bonuses add up to more than 75.
C22_Witness ==
    /\ score_pc = "scored"
    /\ score_path = "fallback"
    /\ lower(offer.title) = lower(candidate.job_title)
    /\ Contains(lower(offer.location), lower(candidate.location))
    /\ ~SchoolKeyword(offer.description)
    /\ offer.is_remote /\ candidate.work_type = "Full Remote"
    /\ offer.ai_analysis.score_technical.n > 75
    /\ offer.match_score = 75

\* The number a sub-score of the analysis counts as: 0 when it is missing.
SubScore(v) == IF v.kind = "int" THEN v.n ELSE 0

\* C23: for a posting scored by the LLM or by the fallback and not flagged
\* as a school scheme, match_score is the weighted sum of the three
\* sub-scores of its analysis, 0.4 / 0.3 / 0.3, rounded down.
C23_CompositeIsWeightedSum ==
    (score_pc = "scored" /\ score_path \in {"llm", "fallback"}
       /\ offer.ai_analysis.is_school_scheme # "true") =>
        offer.match_score =
            (4 * SubScore(offer.ai_analysis.score_technical)
               + 3 * SubScore(offer.ai_analysis.score_structural)
               + 3 * SubScore(offer.ai_analysis.score_experience)) \div 10

(***************************************************************************)
(* LLMEngine.analyze_offers_parallel: one _analyze_single_offer task per   *)
(* posting, run concurrently, joined by asyncio.gather and sorted.         *)
(***************************************************************************)
MaxBatch == 3

\* The candidate of the batch.
BatchCandidates ==
    { c \in Candidates : c.job_title = <<"A", "b", " ", "c">>
                           /\ c.work_type = "Tous" }

\* The postings of the batch: their heuristic scores are 75 and 55.
BatchOffers ==
    { o \in Offers :
        /\ ~o.is_remote
        /\ o.location = <<"P">>
        /\ o.description = <<"C", "D", "I">>
        /\ o.title \in { <<"A", "B", " ", "C">>, <<"z">> } }

\* The replies of the batch: scored 60, a school scored 0, and a score
\* that is a string.
BatchReplies ==
    { r \in Replies :
        \/ /\ r.score_technical = [kind |-> "int", n |-> 60]
           /\ r.score_structural = r.score_technical
           /\ r.score_experience = r.score_technical
           /\ r.is_school_scheme = "absent"
        \/ /\ r.score_technical = [kind |-> "int", n |-> 100]
           /\ r.score_structural = r.score_technical
           /\ r.score_experience = r.score_technical
           /\ r.is_school_scheme = "true"
        \/ /\ r.score_technical = [kind |-> "str", n |-> 80]
           /\ r.score_structural = NoValue
           /\ r.score_experience = NoValue
           /\ r.is_school_scheme = "absent" }

NoReply ==
    [score_technical |-> NoValue, score_structural |-> NoValue,
     score_experience |-> NoValue, is_school_scheme |-> "absent"]

\* How the request of one task ends: a JSON object comes back, the post
\* times out, raise_for_status raises for 429 or 500, or the content is no
\* JSON.
LLMOutcomes ==
    { [cls |-> "none", status |-> 200, data |-> r] : r \in BatchReplies }
      \cup
    { [cls |-> c, status |-> 200, data |-> NoReply] :
        c \in {"TimeoutException", "JSONDecodeError"} }
      \cup
    { [cls |-> "HTTPStatusError", status |-> st, data |-> NoReply] :
        st \in {429, 500} }

LLMExceptClauses_NoCatchAll ==
    {"TimeoutException", "HTTPStatusError", "JSONDecodeError"}

\* The except clauses of the try block around the request.
LLMExceptClauses ==
    {"TimeoutException", "HTTPStatusError", "JSONDecodeError", "Exception"}

\* One task: the posting as it leaves it, and whether an exception left
\* the coroutine.
_analyze_single_offer(cand, o, key, out) ==
    LET w == WeightedScore(out.data)
        exc == IF out.cls # "none" THEN out.cls
               ELSE IF w.ok THEN "none" ELSE "TypeError"
    IN  IF ~key
        THEN [raised |-> FALSE,
              offer |-> [o EXCEPT !.match_score = 50,
                                  !.ai_analysis =
                                      [NoAnalysis EXCEPT !.mode = "mock"]]]
        ELSE IF exc = "none"
        THEN [raised |-> FALSE,
              offer |-> [o EXCEPT
                           !.match_score = w.final_score,
                           !.ai_analysis =
                               [mode |-> "llm",
                                score_technical |-> out.data.score_technical,
                                score_structural |-> out.data.score_structural,
                                score_experience |-> out.data.score_experience,
                                is_school_scheme |-> out.data.is_school_scheme]]]
        ELSE IF \E cls \in LLMExceptClauses : IsInstance(exc, cls)
        THEN [raised |-> FALSE, offer |-> _fallback_scoring(cand, o)]
        ELSE [raised |-> TRUE, offer |-> o]

KeepsPlace_Strict(y, x) == y.match_score > x.match_score

\* list.sort(key=match_score, reverse=True): y, already placed, stays in
\* front of x, which comes later in the list.
KeepsPlace(y, x) == y.match_score >= x.match_score

\* x is put behind the postings that stay in front of it.
SortInsert(acc, x) ==
    LET n == Cardinality({ j \in 1..Len(acc) : KeepsPlace(acc[j], x) })
    IN  SubSeq(acc, 1, n) \o <<x>> \o SubSeq(acc, n + 1, Len(acc))

RECURSIVE SortLoop(_, _, _)
SortLoop(js, i, acc) ==
    IF i > Len(js) THEN acc
    ELSE SortLoop(js, i + 1, SortInsert(acc, js[i]))

sort(js) == SortLoop(js, 1, <<>>)

PendingTask == [status |-> "pending", cls |-> "none", http |-> 200]

\* The task of posting i runs to its end with the outcome out.
TaskFinish(i, out) ==
    /\ batch_pc = "gathering"
    /\ batch_tasks[i].status = "pending"
    /\ LET r == _analyze_single_offer(candidate, batch_offers[i], api_key, out)
       IN  /\ batch_offers' = [batch_offers EXCEPT ![i] = r.offer]
           /\ batch_tasks' =
                [batch_tasks EXCEPT
                   ![i] = [status |-> IF r.raised THEN "raised" ELSE "done",
                           cls |-> out.cls, http |-> out.status]]
           \* gather without return_exceptions raises what a task raised
           /\ batch_pc' = IF r.raised THEN "raised" ELSE "gathering"
    /\ UNCHANGED analyzed_offers
    /\ UNCHANGED score_vars
    /\ UNCHANGED not_batch_vars

\* Every task has ended: the gathered list is sorted and returned.
GatherReturn ==
    /\ batch_pc = "gathering"
    /\ \A i \in 1..Len(batch_tasks) : batch_tasks[i].status = "done"
    /\ analyzed_offers' = sort(batch_offers)
    /\ batch_pc' = "returned"
    /\ UNCHANGED <<batch_offers, batch_tasks>>
    /\ UNCHANGED score_vars
    /\ UNCHANGED not_batch_vars

BatchInit ==
    /\ batch_pc = "gathering"
    /\ \E n \in 0..MaxBatch :
         /\ batch_offers \in [1..n -> BatchOffers]
         /\ batch_tasks = [i \in 1..n |-> PendingTask]
    /\ analyzed_offers = <<>>
    /\ candidate \in BatchCandidates
    /\ api_key \in BOOLEAN
    /\ score_pc = "idle"
    /\ offer = [title |-> <<>>, location |-> <<>>, description |-> <<>>,
                is_remote |-> FALSE, match_score |-> 0,
                ai_analysis |-> NoAnalysis]
    /\ score_path = "none"
    /\ DedupIdle
    /\ BreakerInit
    /\ FetchIdle
    /\ SearchIdle
    /\ CascadeIdle
    /\ FilterIdle
    /\ EnrichIdle
    /\ RepeatIdle
    /\ StripeIdle
    /\ TallyIdle
    /\ FindIdle
    /\ TaskIdle
    /\ KvIdle
    /\ AppIdle
    /\ ChatIdle

BatchNext ==
    \/ \E i \in 1..Len(batch_offers) : \E out \in LLMOutcomes :
         TaskFinish(i, out)
    \/ GatherReturn

BatchSpec == BatchInit /\ [][BatchNext]_vars

(***************************************************************************)
(* Properties of the batch.                                                *)
(***************************************************************************)
\* C21: whatever the outcome of a posting's LLM request, its task ends with
\* an analysis attached and raises nothing; the batch is never aborted and
\* the returned list has as many postings as were handed in.
C21_EveryOutcomeScored ==
    /\ batch_pc # "raised"
    /\ \A i \in 1..Len(batch_tasks) :
         batch_tasks[i].status # "pending" =>
           /\ batch_tasks[i].status = "done"
           /\ batch_offers[i].ai_analysis.mode # "none"
    /\ batch_pc = "returned" => Len(analyzed_offers) = Len(batch_offers)

\* A batch of three was returned although one request hit the quota, one
\* got a JSON object with a string for a score and one a reply that is no
\* JSON.
C21_Witness ==
    /\ batch_pc = "returned"
    /\ api_key
    /\ Len(analyzed_offers) = 3
    /\ batch_tasks[1].cls = "HTTPStatusError" /\ batch_tasks[1].http = 429
    /\ batch_tasks[2].cls = "none"
    /\ batch_tasks[3].cls = "JSONDecodeError"
    /\ \A i \in 1..3 : batch_offers[i].ai_analysis.mode = "fallback_heuristic"

\* p maps the places of the returned list to places of the scored list.
IsPermutationOf(p, res, js) ==
    /\ \A i, j \in 1..Len(res) : i # j => p[i] # p[j]
    /\ \A i \in 1..Len(res) : res[i] = js[p[i]]

\* C24: the returned list is a permutation of the scored postings, in
\* non-increasing match_score order, and postings of equal match_score are
\* in the order they had in the input.
C24_StableDescendingSort ==
    batch_pc = "returned" =>
      /\ Len(analyzed_offers) = Len(batch_offers)
      /\ \E p \in [1..Len(analyzed_offers) -> 1..Len(batch_offers)] :
           /\ IsPermutationOf(p, analyzed_offers, batch_offers)
           /\ \A i, j \in 1..Len(analyzed_offers) :
                i < j =>
                  /\ analyzed_offers[i].match_score
                       >= analyzed_offers[j].match_score
                  /\ analyzed_offers[i].match_score
                       = analyzed_offers[j].match_score => p[i] < p[j]

\* Three different postings: the second scored highest, the first and the
\* third scored the same and were returned in their input order.
C24_Witness ==
    /\ batch_pc = "returned"
    /\ Len(batch_offers) = 3
    /\ batch_offers[1].title # batch_offers[3].title
    /\ batch_offers[1].match_score = batch_offers[3].match_score
    /\ batch_offers[2].match_score > batch_offers[1].match_score
    /\ analyzed_offers
         = <<batch_offers[2], batch_offers[1], batch_offers[3]>>

(***************************************************************************)
(* SearchEngine._enrich_jobs_with_full_content: one _fetch_single_url task *)
(* per posting.  A text is known by where it comes from and its length.    *)
(***************************************************************************)
MaxEnrich == 2

\* len(full_text) > 200
min_full_text == 200

\* full_text[:5000]
max_description == 5000

\* offer.url: empty, of another scheme, or an http address.
Urls == {"", "ftp://a", "http://a"}

startswith_http(url) == url = "http://a"

ApiDescription == [src |-> "api", len |-> 10]

NoText == [src |-> "none", len |-> 0]

\* What trafilatura does for one page: fetch_url raises or returns nothing,
\* extract raises or returns nothing, or extract returns a text.
PageOutcomes ==
    { [cls |-> c, text |-> NoText] :
        c \in {"fetch_raises", "fetch_none", "extract_raises", "extract_none"} }
      \cup
    { [cls |-> "text", text |-> [src |-> "page", len |-> n]] :
        n \in {0, min_full_text - 1, min_full_text, min_full_text + 1,
               max_description, max_description + 1} }

EnrichExceptClauses_None == {}

\* except Exception: pass
EnrichExceptClauses == {"Exception"}

\* if full_text and len(full_text) > 200
LongEnough(full_text) == full_text.len > 0 /\ full_text.len > min_full_text

\* full_text[:5000]
Truncate(full_text) ==
    [full_text EXCEPT !.len = Min2(full_text.len, max_description)]

\* One task: the posting as it leaves it, and whether an exception left
\* the coroutine.
_fetch_single_url(o, out) ==
    IF o.url = "" \/ ~startswith_http(o.url)
    THEN [raised |-> FALSE, offer |-> o]
    ELSE IF out.cls \in {"fetch_raises", "extract_raises"}
    THEN [raised |-> ~(\E cls \in EnrichExceptClauses :
                          IsInstance("Exception", cls)),
          offer |-> o]
    ELSE IF out.cls = "text" /\ LongEnough(out.text)
    THEN [raised |-> FALSE,
          offer |-> [o EXCEPT !.description = Truncate(out.text)]]
    ELSE [raised |-> FALSE, offer |-> o]

PendingFetch == [status |-> "pending", cls |-> "none", text |-> NoText]

\* The task of posting i runs to its end; the page does out.
FetchSingleUrl(i, out) ==
    /\ enrich_pc = "gathering"
    /\ enrich_tasks[i].status = "pending"
    /\ LET r == _fetch_single_url(enrich_offers[i], out)
       IN  /\ enrich_offers' = [enrich_offers EXCEPT ![i] = r.offer]
           /\ enrich_tasks' =
                [enrich_tasks EXCEPT
                   ![i] = [status |-> IF r.raised THEN "raised" ELSE "done",
                           cls |-> out.cls, text |-> out.text]]
           /\ enrich_pc' = IF r.raised THEN "raised" ELSE "gathering"
    /\ UNCHANGED <<enrich_input, enriched>>
    /\ UNCHANGED not_enrich_vars

\* Every task has ended: gather returns their results in task order.
EnrichReturn ==
    /\ enrich_pc = "gathering"
    /\ \A i \in 1..Len(enrich_tasks) : enrich_tasks[i].status = "done"
    /\ enriched' = enrich_offers
    /\ enrich_pc' = "returned"
    /\ UNCHANGED <<enrich_input, enrich_offers, enrich_tasks>>
    /\ UNCHANGED not_enrich_vars

\* A posting; id stands for the identity of the JobOffer object.
EnrichOffers(i) ==
    [id : {i}, url : Urls, description : {ApiDescription}]

EnrichInit ==
    /\ enrich_pc = "gathering"
    /\ \E n \in 0..MaxEnrich :
         /\ enrich_input \in [1..n -> UNION { EnrichOffers(i) : i \in 1..n }]
         /\ \A i \in 1..n : enrich_input[i].id = i
         /\ enrich_tasks = [i \in 1..n |-> PendingFetch]
    /\ enrich_offers = enrich_input
    /\ enriched = <<>>
    /\ DedupIdle
    /\ BreakerInit
    /\ FetchIdle
    /\ SearchIdle
    /\ CascadeIdle
    /\ FilterIdle
    /\ ScoreIdle
    /\ BatchIdle
    /\ RepeatIdle
    /\ StripeIdle
    /\ TallyIdle
    /\ FindIdle
    /\ TaskIdle
    /\ KvIdle
    /\ AppIdle
    /\ ChatIdle

EnrichNext ==
    \/ \E i \in 1..Len(enrich_offers) : \E out \in PageOutcomes :
         FetchSingleUrl(i, out)
    \/ EnrichReturn

EnrichSpec == EnrichInit /\ [][EnrichNext]_vars

(***************************************************************************)
(* Properties of the enrichment.                                           *)
(***************************************************************************)
\* The task of posting i ended without a text extracted from its page.
FetchFailed(i) ==
    /\ enrich_tasks[i].status # "pending"
    /\ enrich_tasks[i].cls # "text"

\* C25: a posting whose fetch or extraction failed has its description
\* unchanged, a task changes no posting but its own, no failure leaves
\* _enrich_jobs_with_full_content, and the returned list has the same
\* postings in the same order.
C25_FailureLeavesPostingsAlone ==
    /\ enrich_pc # "raised"
    /\ Len(enrich_offers) = Len(enrich_input)
    /\ \A i \in 1..Len(enrich_offers) :
         /\ enrich_offers[i].id = enrich_input[i].id
         /\ enrich_offers[i].url = enrich_input[i].url
         /\ (enrich_tasks[i].status = "pending" \/ FetchFailed(i))
              => enrich_offers[i] = enrich_input[i]
    /\ enrich_pc = "returned" =>
         /\ Len(enriched) = Len(enrich_input)
         /\ \A i \in 1..Len(enriched) : enriched[i].id = enrich_input[i].id
         /\ enriched = enrich_offers

\* Two postings with http addresses were returned: the fetch of the first
\* raised, the page of the second gave a long text.
C25_Witness ==
    /\ enrich_pc = "returned"
    /\ Len(enriched) = 2
    /\ enrich_input[1].url = "http://a" /\ enrich_input[2].url = "http://a"
    /\ enrich_tasks[1].cls = "fetch_raises"
    /\ enrich_tasks[2].cls = "text"
    /\ enriched[1] = enrich_input[1]
    /\ enriched[2].description.src = "page"

\* C26: the description of a posting whose page was fetched is replaced by
\* the extracted text iff that text has at least 200 characters.
C26_ReplacedFromTwoHundred ==
    \A i \in 1..Len(enrich_offers) :
      (/\ enrich_tasks[i].status = "done"
       /\ enrich_tasks[i].cls = "text"
       /\ startswith_http(enrich_input[i].url))
        => (enrich_offers[i].description.src = "page"
              <=> enrich_tasks[i].text.len >= 200)

(***************************************************************************)
(* Repeated searches: SearchEngine._call_jsearch_api called again and      *)
(* again on the module-level jsearch_circuit, each call run to its end     *)
(* against what the JSearch API answers at that time.                      *)
(***************************************************************************)
MaxSearches == 5

\* What the API answers to every request of one call: postings, an empty
\* page, or 503.
Upstreams ==
    { [outcome |-> o, payload |-> p] :
        o \in { x \in Outcomes : x.status \in {200, 503} },
        p \in { x \in Payloads : x.valid } }

\* resilient_get against an API that answers o to each attempt.
RECURSIVE resilient_get(_, _)
resilient_get(o, n) ==
    LET next == AfterAttempt(o, n)
    IN  IF next.do = "retry" THEN resilient_get(o, n + 1) ELSE next

\* One call of _call_jsearch_api with RAPIDAPI_KEY set: jsearch_circuit.call
\* around resilient_get, the parse, and the except clauses that return [].
CallJSearchApi ==
    /\ Len(search_log) < MaxSearches
    /\ LET st == _check_recovery(state, last_failure_time, now)
           r == resilient_get(upstream.outcome, 1)
           log(js) == Append(search_log, [upstream |-> upstream, jobs |-> js])
       IN  IF CircuitIsOpen(st)
           THEN /\ state' = st
                /\ search_log' = log(<<>>)
                /\ UNCHANGED <<failure_count, last_failure_time>>
           ELSE IF r.do = "return"
           THEN /\ state' = IF st = "HALF_OPEN" THEN "CLOSED" ELSE st
                /\ failure_count' = IF st = "HALF_OPEN" THEN 0
                                    ELSE failure_count
                /\ search_log' = log(upstream.payload.jobs)
                /\ UNCHANGED last_failure_time
           ELSE /\ failure_count < MaxFailureCount
                /\ failure_count' = failure_count + 1
                /\ last_failure_time' = [set |-> TRUE, t |-> now]
                /\ state' = IF failure_count + 1 >= failure_threshold
                            THEN "OPEN" ELSE st
                /\ search_log' = log(<<>>)
    /\ UNCHANGED <<now, calls, consec_failures, last_event, upstream>>
    /\ UNCHANGED not_repeat_vars

\* The listings of the API change, or it goes down or comes back.
UpstreamChanges ==
    /\ upstream' \in Upstreams \ {upstream}
    /\ UNCHANGED search_log
    /\ UNCHANGED breaker_vars
    /\ UNCHANGED not_repeat_vars

RepeatInit ==
    /\ upstream \in Upstreams
    /\ search_log = <<>>
    /\ DedupIdle
    /\ BreakerInit
    /\ FetchIdle
    /\ SearchIdle
    /\ CascadeIdle
    /\ FilterIdle
    /\ ScoreIdle
    /\ BatchIdle
    /\ EnrichIdle
    /\ StripeIdle
    /\ TallyIdle
    /\ FindIdle
    /\ TaskIdle
    /\ KvIdle
    /\ AppIdle
    /\ ChatIdle

RepeatNext ==
    \/ CallJSearchApi
    \/ UpstreamChanges
    \/ Tick

RepeatSpec == RepeatInit /\ [][RepeatNext]_vars

MaxDeliveries == 2

\* PLANS[plan]["credits"]
PLANS == [FREE |-> 5, STARTER |-> 100]

\* After 3 attempts a failed payment downgrades.
max_payment_attempts == 3

\* The events Stripe delivers, each any number of times.
StripeEvents ==
    { [id |-> "evt_1", type |-> "checkout.session.completed",
       attempt_count |-> 0],
      [id |-> "evt_2", type |-> "customer.subscription.deleted",
       attempt_count |-> 0],
      [id |-> "evt_3", type |-> "invoice.payment_failed",
       attempt_count |-> max_payment_attempts],
      [id |-> "evt_4", type |-> "invoice.payment_succeeded",
       attempt_count |-> 0],
      [id |-> "evt_5", type |-> "customer.subscription.created",
       attempt_count |-> 0] }

EventIds == { e.id : e \in StripeEvents }

\* How the database calls of one delivery go: the select on stripe_events,
\* the lookup of the user, the update of user_profiles, the insert into
\* stripe_events.
DbOutcomes ==
    [select_ok : BOOLEAN, lookup : {"found", "not_found", "raises"},
     update_ok : BOOLEAN, insert_ok : BOOLEAN]

is_event_processed(event_id, db) ==
    /\ admin_client
    /\ db.select_ok
    /\ \E k \in 1..Len(stripe_events) : stripe_events[k].event_id = event_id

\* The table after mark_event_processed: an insert that fails is logged
\* and swallowed.
mark_event_processed(e, status, db) ==
    IF admin_client /\ db.insert_ok
    THEN Append(stripe_events,
                [event_id |-> e.id, event_type |-> e.type, status |-> status])
    ELSE stripe_events

\* upgrade_user_subscription(user_id, "STARTER", customer_id)
upgrade_user_subscription(db) ==
    IF admin_client /\ db.update_ok
    THEN [success |-> TRUE,
          profile |-> [plan |-> "STARTER", credits |-> PLANS.STARTER,
                       last_credit_reset |-> now]]
    ELSE [success |-> FALSE, profile |-> user_profile]

downgrade_user_subscription(db) ==
    IF admin_client /\ db.update_ok
    THEN [success |-> TRUE,
          profile |-> [plan |-> "FREE", credits |-> PLANS.FREE,
                       last_credit_reset |-> now]]
    ELSE [success |-> FALSE, profile |-> user_profile]

\* What one delivery does: its response, whether it updated the profile
\* ("none" when it did not try), the status it asked to record, and the
\* profile it leaves.
Handled(response, update, status, profile) ==
    [response |-> response, update |-> update, status |-> status,
     profile |-> profile]

Outcome(r) == IF r.success THEN "ok" ELSE "failed"

\* The branch of the handler that downgrades the customer: the select on
\* user_profiles is not guarded, the result of the downgrade is not read.
DowngradeBranch(db, response, otherwise) ==
    IF admin_client /\ db.lookup = "raises"
    THEN Handled("500", "none", "failed", user_profile)
    ELSE IF admin_client /\ db.lookup = "found"
    THEN LET r == downgrade_user_subscription(db)
         IN  Handled(response, Outcome(r), "processed", r.profile)
    ELSE Handled(otherwise, "none", "skipped", user_profile)

HandleEvent(e, db) ==
    CASE e.type = "checkout.session.completed" ->
           IF ~admin_client \/ db.lookup # "found"
           THEN Handled("pending", "none", "skipped", user_profile)
           ELSE LET r == upgrade_user_subscription(db)
                IN  IF r.success
                    THEN Handled("success", "ok", "processed", r.profile)
                    ELSE Handled("error", "failed", "failed", r.profile)
      [] e.type = "customer.subscription.deleted" ->
           DowngradeBranch(db, "success", "skipped")
      [] e.type = "invoice.payment_failed" ->
           IF e.attempt_count >= max_payment_attempts
           THEN DowngradeBranch(db, "downgraded", "warning")
           ELSE Handled("warning", "none", "skipped", user_profile)
      [] e.type = "invoice.payment_succeeded" ->
           IF admin_client /\ db.lookup = "raises"
           THEN Handled("500", "none", "failed", user_profile)
           ELSE IF admin_client /\ db.lookup = "found"
           THEN IF db.update_ok
                THEN Handled("success", "ok", "processed",
                             [user_profile EXCEPT
                                !.credits = PLANS[user_profile.plan],
                                !.last_credit_reset = now])
                ELSE Handled("500", "failed", "failed", user_profile)
           ELSE Handled("skipped", "none", "skipped", user_profile)
      [] OTHER -> Handled("ignored", "none", "skipped", user_profile)

\* One delivery of the event e, handled from the idempotence check to the
\* response.
StripeWebhook(e, db) ==
    /\ Len(deliveries) < MaxDeliveries
    /\ IF is_event_processed(e.id, db)
       THEN /\ deliveries' =
                 Append(deliveries,
                        [event_id |-> e.id, response |-> "already_processed",
                         update |-> "none", recorded |-> "none"])
            /\ UNCHANGED <<stripe_events, user_profile, applied>>
       ELSE LET h == HandleEvent(e, db)
                rows == mark_event_processed(e, h.status, db)
            IN  /\ user_profile' = h.profile
                /\ stripe_events' = rows
                /\ applied' =
                     [applied EXCEPT
                        ![e.id] = IF h.update = "ok" THEN @ + 1 ELSE @]
                /\ deliveries' =
                     Append(deliveries,
                            [event_id |-> e.id, response |-> h.response,
                             update |-> h.update,
                             recorded |-> IF rows = stripe_events THEN "none"
                                          ELSE h.status])
    /\ UNCHANGED admin_client
    /\ UNCHANGED breaker_vars
    /\ UNCHANGED not_stripe_vars

StripeInit ==
    /\ admin_client \in BOOLEAN
    /\ stripe_events = <<>>
    /\ user_profile \in
         { [plan |-> pl, credits |-> PLANS[pl], last_credit_reset |-> 0] :
             pl \in {"FREE", "STARTER"} }
    /\ applied = [id \in EventIds |-> 0]
    /\ deliveries = <<>>
    /\ DedupIdle
    /\ BreakerInit
    /\ FetchIdle
    /\ SearchIdle
    /\ CascadeIdle
    /\ FilterIdle
    /\ ScoreIdle
    /\ BatchIdle
    /\ EnrichIdle
    /\ RepeatIdle
    /\ TallyIdle
    /\ FindIdle
    /\ TaskIdle
    /\ KvIdle
    /\ AppIdle
    /\ ChatIdle

StripeNext ==
    \/ \E e \in StripeEvents, db \in DbOutcomes : StripeWebhook(e, db)
    \/ Tick

StripeSpec == StripeInit /\ [][StripeNext]_vars

(***************************************************************************)
(* Properties of the Stripe webhook.                                       *)
(***************************************************************************)
\* C28: the profile update of an event is applied at most once, however
\* often the event is delivered.
C28_UpdateAtMostOnce ==
    \A id \in DOMAIN applied : applied[id] <= 1

\* C29: a delivery whose profile update failed does not record its event
\* with status 'processed'.
C29_ProcessedOnlyAfterSuccess ==
    \A i \in 1..Len(deliveries) :
      deliveries[i].update = "failed" => deliveries[i].recorded # "processed"

(***************************************************************************)
(* main.py: POST /webhook/tally and the email_dedup entry of CacheService. *)
(* The handler has no await, so one payload is handled in one step; the    *)
(* SQLite statements of get and set may fail.                              *)
(***************************************************************************)
MaxPayloads == 3

\* Seconds between two readings of the clock.
SecondsPerTick == 100

COOLDOWN_SECONDS == 300

\* fields.get("question_D7V1kj", "unknown")
Emails == {"a@example.com", "unknown"}

\* time.time()
time == now * SecondsPerTick

NoEntry == [set |-> FALSE, expires_at |-> 0]

\* CacheService.get: the row of the key unless it has expired; None when
\* the statement fails.
cache_get(key, get_ok) ==
    IF get_ok /\ cache[key].set /\ cache[key].expires_at > time
    THEN cache[key] ELSE NoEntry

\* CacheService.exists
cache_exists(key, get_ok) == cache_get(key, get_ok).set

\* CacheService.set: INSERT OR REPLACE with expires_at = time() + ttl; a
\* failure is logged and False is returned.
cache_set(key, ttl_seconds, set_ok) ==
    IF set_ok
    THEN [cache EXCEPT ![key] = [set |-> TRUE, expires_at |-> time + ttl_seconds]]
    ELSE cache

\* One payload for the email is handled.
ReceiveTallyWebhook(email, get_ok, set_ok) ==
    /\ Len(tally_log) < MaxPayloads
    /\ IF cache_exists(email, get_ok)
       THEN /\ tally_log' =
                 Append(tally_log,
                        [email |-> email, t |-> time, status_code |-> 429,
                         status |-> "ignored", task |-> FALSE])
            /\ UNCHANGED cache
       ELSE /\ cache' = cache_set(email, COOLDOWN_SECONDS, set_ok)
            /\ tally_log' =
                 Append(tally_log,
                        [email |-> email, t |-> time, status_code |-> 200,
                         status |-> "received", task |-> TRUE])
    /\ UNCHANGED breaker_vars
    /\ UNCHANGED not_tally_vars

TallyInit ==
    /\ cache = [e \in Emails |-> NoEntry]
    /\ tally_log = <<>>
    /\ DedupIdle
    /\ BreakerInit
    /\ FetchIdle
    /\ SearchIdle
    /\ CascadeIdle
    /\ FilterIdle
    /\ ScoreIdle
    /\ BatchIdle
    /\ EnrichIdle
    /\ RepeatIdle
    /\ StripeIdle
    /\ FindIdle
    /\ TaskIdle
    /\ KvIdle
    /\ AppIdle
    /\ ChatIdle

TallyNext ==
    \/ \E email \in Emails, get_ok \in BOOLEAN, set_ok \in BOOLEAN :
         ReceiveTallyWebhook(email, get_ok, set_ok)
    \/ Tick

TallySpec == TallyInit /\ [][TallyNext]_vars

\* C30: a payload that arrives less than 300 seconds after an accepted
\* payload of the same email is answered 429 'ignored' and starts no
\* processing task.
C30_OneTaskPerWindow ==
    \A i, j \in 1..Len(tally_log) :
      (/\ i < j
       /\ tally_log[i].email = tally_log[j].email
       /\ tally_log[i].task
       /\ tally_log[j].t - tally_log[i].t < 300) =>
        /\ tally_log[j].status_code = 429
        /\ tally_log[j].status = "ignored"
        /\ ~tally_log[j].task

(***************************************************************************)
(* SearchEngineV2.find_jobs_v2 from its step 5 on: the first limit         *)
(* postings of the filtered list are enriched and returned.                *)
(***************************************************************************)
MaxFiltered == 3

MaxLimit == 2

Slice_All(js, n) == js

\* js[:n] for n >= 0
Slice(js, n) == SubSeq(js, 1, Min2(n, Len(js)))

\* filtered_jobs[:limit] is handed to _enrich_jobs_with_full_content, or
\* returned as it is when it is empty.
DeepFetching ==
    /\ enrich_pc = "idle"
    /\ LET jobs_to_enrich == Slice(filtered_jobs, limit)
       IN  /\ enrich_input' = jobs_to_enrich
           /\ enrich_offers' = jobs_to_enrich
           /\ enrich_tasks' = [i \in 1..Len(jobs_to_enrich) |-> PendingFetch]
           /\ enrich_pc' = IF jobs_to_enrich = <<>> THEN "returned"
                           ELSE "gathering"
    /\ UNCHANGED <<enriched, filtered_jobs, limit>>
    /\ UNCHANGED not_find_vars

FindInit ==
    /\ \E n \in 0..MaxFiltered :
         /\ filtered_jobs \in [1..n -> UNION { EnrichOffers(i) : i \in 1..n }]
         /\ \A i \in 1..n : filtered_jobs[i].id = i
    /\ limit \in 0..MaxLimit
    /\ EnrichIdle
    /\ DedupIdle
    /\ BreakerInit
    /\ FetchIdle
    /\ SearchIdle
    /\ CascadeIdle
    /\ FilterIdle
    /\ ScoreIdle
    /\ BatchIdle
    /\ RepeatIdle
    /\ StripeIdle
    /\ TallyIdle
    /\ TaskIdle
    /\ KvIdle
    /\ AppIdle
    /\ ChatIdle

FindNext ==
    \/ DeepFetching
    \/ \E i \in 1..Len(enrich_offers) : \E out \in PageOutcomes :
         FetchSingleUrl(i, out)
    \/ EnrichReturn

FindSpec == FindInit /\ [][FindNext]_vars

\* C38: find_jobs_v2 returns at most limit postings, the first limit
\* postings of the filtered list in their order; only their descriptions
\* may differ.
C38_FirstLimitPostings ==
    enrich_pc = "returned" =>
      /\ Len(enriched) <= limit
      /\ Len(enriched) = Min2(limit, Len(filtered_jobs))
      /\ \A i \in 1..Len(enriched) :
           /\ enriched[i].id = filtered_jobs[i].id
           /\ enriched[i].url = filtered_jobs[i].url

\* Three postings passed the filters, the limit is two: the first two are
\* returned, the second one with the text of its page.
C38_Witness ==
    /\ enrich_pc = "returned"
    /\ Len(filtered_jobs) = 3
    /\ limit = 2
    /\ Len(enriched) = 2
    /\ enriched[1] = filtered_jobs[1]
    /\ enriched[2].description.src = "page"

(***************************************************************************)
(* The task queue: enqueue_task, claim_task, mark_task_done,               *)
(* mark_task_failed, get_orphan_tasks, reset_task of CacheService; the     *)
(* background task process_application_task and the crash recovery of      *)
(* lifespan in main.py.  A task's id is its index in task_queue.           *)
(***************************************************************************)
MaxTasks == 2

\* Seconds of time.time() per clock tick, for the task queue.
TaskSecondsPerTick == 300

\* get_orphan_tasks(timeout_seconds=600)
orphan_timeout == 600

\* if orphan['retries'] < 3
max_retries == 3

task_time == now * TaskSecondsPerTick

\* processed_at IS NULL
NULL == 0 - 1

TaskIds == 1..Len(task_queue)

\* INSERT INTO tasks (...): status 'pending', retries 0 by the table's defaults.
NewTask == [status |-> "pending", retries |-> 0, processed_at |-> NULL]

\* WHERE id = ? AND status = 'pending'
CanClaim(row) == row.status = "pending"

\* CacheService.claim_task: <<the rows afterwards, the returned flag>>; a
\* statement that fails changes nothing and returns False.
claim_task(id, db_ok) ==
    IF db_ok /\ CanClaim(task_queue[id])
    THEN [rows |-> [task_queue EXCEPT ![id].status = "processing",
                                      ![id].processed_at = task_time],
          claimed |-> TRUE]
    ELSE [rows |-> task_queue, claimed |-> FALSE]

\* CacheService.mark_task_done
mark_task_done(rows, id) == [rows EXCEPT ![id].status = "done"]

\* CacheService.mark_task_failed: retries = retries + 1
mark_task_failed(rows, id) ==
    [rows EXCEPT ![id].status = "failed", ![id].retries = @ + 1]

\* CacheService.reset_task: no condition on the status.
reset_task(rows, id) ==
    [rows EXCEPT ![id].status = "pending", ![id].processed_at = NULL,
                 ![id].retries = @ + 1]

IsOrphan_AnyAge(row) == row.status = "processing"

\* get_orphan_tasks: status = 'processing' AND processed_at < time() - timeout
IsOrphan(row) ==
    /\ row.status = "processing"
    /\ row.processed_at # NULL
    /\ row.processed_at < task_time - orphan_timeout

\* One turn of the loop of lifespan over the orphans.
recover(rows, id) ==
    IF ~IsOrphan(rows[id]) THEN rows
    ELSE IF rows[id].retries < max_retries
         THEN reset_task(rows, id)
         ELSE mark_task_failed(rows, id)

\* receive_tally_webhook: the task is persisted, then the background task is
\* scheduled with its id.
EnqueueTask ==
    /\ server_up
    /\ Len(task_queue) < MaxTasks
    /\ task_queue' = Append(task_queue, NewTask)
    /\ workers' = Append(workers, [pc |-> "scheduled", claimed |-> FALSE])
    /\ requeues' = Append(requeues, 0)
    /\ UNCHANGED server_up
    /\ UNCHANGED not_task_vars

\* process_application_task, up to the try block: claim_task is called and
\* what it returns is dropped.
ClaimTask(id, db_ok) ==
    /\ server_up
    /\ id \in TaskIds
    /\ workers[id].pc = "scheduled"
    /\ task_queue' = claim_task(id, db_ok).rows
    /\ workers' = [workers EXCEPT ![id] =
                     [pc |-> "working", claimed |-> claim_task(id, db_ok).claimed]]
    /\ UNCHANGED <<server_up, requeues>>
    /\ UNCHANGED not_task_vars

\* process_application_task, the try block: mark_task_done on the paths that
\* end normally, mark_task_failed in the except clause.
FinishTask(id, ok) ==
    /\ server_up
    /\ id \in TaskIds
    /\ workers[id].pc = "working"
    /\ task_queue' = IF ok THEN mark_task_done(task_queue, id)
                     ELSE mark_task_failed(task_queue, id)
    /\ workers' = [workers EXCEPT ![id].pc = "over"]
    /\ UNCHANGED <<server_up, requeues>>
    /\ UNCHANGED not_task_vars

\* The process dies: its background tasks are gone, the table stays.
Crash ==
    /\ server_up
    /\ task_queue # <<>>
    /\ server_up' = FALSE
    /\ workers' = [i \in DOMAIN workers |->
                     IF workers[i].pc \in {"scheduled", "working"}
                     THEN [workers[i] EXCEPT !.pc = "lost"] ELSE workers[i]]
    /\ UNCHANGED <<task_queue, requeues>>
    /\ UNCHANGED not_task_vars

\* lifespan, up to the yield: the orphans are reset or marked failed.
Restart ==
    /\ ~server_up
    /\ server_up' = TRUE
    /\ task_queue' = [i \in DOMAIN task_queue |-> recover(task_queue, i)[i]]
    /\ requeues' = [i \in DOMAIN requeues |->
                      IF recover(task_queue, i)[i].status = "pending"
                         /\ task_queue[i].status = "processing"
                      THEN requeues[i] + 1 ELSE requeues[i]]
    /\ UNCHANGED workers
    /\ UNCHANGED not_task_vars

TaskInit ==
    /\ task_queue = <<>>
    /\ server_up = TRUE
    /\ workers = <<>>
    /\ requeues = <<>>
    /\ DedupIdle
    /\ BreakerInit
    /\ FetchIdle
    /\ SearchIdle
    /\ CascadeIdle
    /\ FilterIdle
    /\ ScoreIdle
    /\ BatchIdle
    /\ EnrichIdle
    /\ RepeatIdle
    /\ StripeIdle
    /\ TallyIdle
    /\ FindIdle
    /\ KvIdle
    /\ AppIdle
    /\ ChatIdle

TaskNext ==
    \/ EnqueueTask
    \/ \E id \in 1..MaxTasks, db_ok \in BOOLEAN : ClaimTask(id, db_ok)
    \/ \E id \in 1..MaxTasks, ok \in BOOLEAN : FinishTask(id, ok)
    \/ Crash
    \/ Restart
    \/ Tick

TaskSpec == TaskInit /\ [][TaskNext]_vars

\* C31: claim_task returns True only when the task was 'pending', and moves
\* it to 'processing' in the same step; a task is processed only by a caller
\* whose claim returned True.
C31_ProcessedOnlyByClaimer ==
    [][\A id \in TaskIds :
         /\ (workers'[id].claimed /\ ~workers[id].claimed) =>
              /\ task_queue[id].status = "pending"
              /\ task_queue'[id].status = "processing"
         /\ workers'[id].pc = "working" => workers'[id].claimed]_vars

FairTaskSpec ==
    /\ TaskSpec
    /\ \A id \in 1..MaxTasks :
         /\ WF_vars(\E db_ok \in BOOLEAN : ClaimTask(id, db_ok))
         /\ WF_vars(\E ok \in BOOLEAN : FinishTask(id, ok))
    /\ WF_vars(Restart)
    /\ WF_vars(Tick)

\* C40: every task that was enqueued eventually has status 'done' or
\* 'failed', crashes and restarts included.
C40_EveryTaskEnds ==
    \A id \in 1..MaxTasks :
      (id \in TaskIds) ~>
        (id \in TaskIds /\ task_queue[id].status \in {"done", "failed"})

(***************************************************************************)
(* CacheService.set, get, delete and cleanup_expired on the cache table.   *)
(* Every operation catches the exception of its statement: set and delete  *)
(* then return False, get returns None, cleanup_expired returns 0.         *)
(***************************************************************************)
MaxOps == 4

Keys == {"k1", "k2"}

Values == {"v1", "v2"}

\* ttl_seconds
Ttls == {100, 200}

NoRow == [present |-> FALSE, value |-> "", expires_at |-> 0]

\* None
None == [found |-> FALSE, value |-> ""]

NoSet == [set |-> FALSE, value |-> "", expiry |-> 0, deleted |-> FALSE]

Live_Inclusive(row) == row.present /\ row.expires_at >= time

\* WHERE key = ? AND expires_at > ?
Live(row) == row.present /\ row.expires_at > time

\* CacheService.get
get(rows, key, db_ok) ==
    IF db_ok /\ Live(rows[key])
    THEN [found |-> TRUE, value |-> rows[key].value]
    ELSE None

\* CacheService.set: INSERT OR REPLACE with expires_at = time.time() + ttl.
set(rows, key, value, ttl_seconds, db_ok) ==
    IF db_ok
    THEN [rows EXCEPT ![key] = [present |-> TRUE, value |-> value,
                                expires_at |-> time + ttl_seconds]]
    ELSE rows

\* CacheService.delete
delete(rows, key, db_ok) ==
    IF db_ok THEN [rows EXCEPT ![key] = NoRow] ELSE rows

\* CacheService.cleanup_expired: DELETE FROM cache WHERE expires_at < ?
cleanup_expired(rows, db_ok) ==
    IF db_ok
    THEN [k \in DOMAIN rows |->
            IF rows[k].present /\ rows[k].expires_at < time
            THEN NoRow ELSE rows[k]]
    ELSE rows

\* The record of an operation; only get fills in the key, the fate of the
\* statement and the result.
Op(name, key, db_ok, result) ==
    [op |-> name, key |-> key, db_ok |-> db_ok, result |-> result]

CacheSet(key, value, ttl_seconds, db_ok) ==
    /\ ops < MaxOps
    /\ ops' = ops + 1
    /\ store' = set(store, key, value, ttl_seconds, db_ok)
    /\ set_calls' = [set_calls EXCEPT ![key] =
                       [set |-> TRUE, value |-> value,
                        expiry |-> time + ttl_seconds, deleted |-> FALSE]]
    /\ set_done' = IF db_ok
                   THEN [set_done EXCEPT ![key] =
                           [set |-> TRUE, value |-> value,
                            expiry |-> time + ttl_seconds, deleted |-> FALSE]]
                   ELSE set_done
    /\ last_op' = Op("set", "k1", TRUE, None)
    /\ UNCHANGED not_kv_vars

CacheGet(key, db_ok) ==
    /\ ops < MaxOps
    /\ ops' = ops + 1
    /\ last_op' = Op("get", key, db_ok, get(store, key, db_ok))
    /\ UNCHANGED <<store, set_calls, set_done>>
    /\ UNCHANGED not_kv_vars

CacheDelete(key, db_ok) ==
    /\ ops < MaxOps
    /\ ops' = ops + 1
    /\ store' = delete(store, key, db_ok)
    /\ set_calls' = [set_calls EXCEPT ![key].deleted = TRUE]
    /\ set_done' = IF db_ok THEN [set_done EXCEPT ![key].deleted = TRUE]
                   ELSE set_done
    /\ last_op' = Op("delete", "k1", TRUE, None)
    /\ UNCHANGED not_kv_vars

CacheCleanup(db_ok) ==
    /\ ops < MaxOps
    /\ ops' = ops + 1
    /\ store' = cleanup_expired(store, db_ok)
    /\ last_op' = Op("cleanup_expired", "k1", TRUE, None)
    /\ UNCHANGED <<set_calls, set_done>>
    /\ UNCHANGED not_kv_vars

KvInit ==
    /\ store = [k \in Keys |-> NoRow]
    /\ set_calls = [k \in Keys |-> NoSet]
    /\ set_done = [k \in Keys |-> NoSet]
    /\ last_op = Op("none", "k1", TRUE, None)
    /\ ops = 0
    /\ DedupIdle
    /\ BreakerInit
    /\ FetchIdle
    /\ SearchIdle
    /\ CascadeIdle
    /\ FilterIdle
    /\ ScoreIdle
    /\ BatchIdle
    /\ EnrichIdle
    /\ RepeatIdle
    /\ StripeIdle
    /\ TallyIdle
    /\ FindIdle
    /\ TaskIdle
    /\ AppIdle
    /\ ChatIdle

KvNext ==
    \/ \E key \in Keys, value \in Values, ttl_seconds \in Ttls,
          db_ok \in BOOLEAN : CacheSet(key, value, ttl_seconds, db_ok)
    \/ \E key \in Keys, db_ok \in BOOLEAN : CacheGet(key, db_ok)
    \/ \E key \in Keys, db_ok \in BOOLEAN : CacheDelete(key, db_ok)
    \/ \E db_ok \in BOOLEAN : CacheCleanup(db_ok)
    \/ Tick

KvSpec == KvInit /\ [][KvNext]_vars

\* What get must return for a key, given the last set of the key.
Expected(last) ==
    IF last.set /\ ~last.deleted /\ time < last.expiry
    THEN [found |-> TRUE, value |-> last.value]
    ELSE None

\* C35 as stated: get(key) returns the value of the most recent set(key, v,
\* ttl) iff no delete(key) followed that set and the time is before set time
\* + ttl, and None otherwise; cleanup_expired changes what no get returns.
C35_GetReturnsLastSet ==
    [][/\ (ops' = ops + 1 /\ last_op'.op = "get") =>
            last_op'.result = Expected(set_calls[last_op'.key])
       /\ (ops' = ops + 1 /\ last_op'.op = "cleanup_expired") =>
            \A k \in Keys : get(store', k, TRUE) = get(store, k, TRUE)]_vars

\* C35, amended: a get whose statement runs returns the value of the most
\* recent set(key, v, ttl) that returned True iff no delete(key) that returned
\* True followed that set and the time is before set time + ttl, and None
\* otherwise; a get whose statement fails returns None; cleanup_expired
\* changes what no get returns.
C35_GetReturnsLastStoredSet ==
    [][/\ (ops' = ops + 1 /\ last_op'.op = "get") =>
            last_op'.result =
              IF last_op'.db_ok THEN Expected(set_done[last_op'.key]) ELSE None
       /\ (ops' = ops + 1 /\ last_op'.op = "cleanup_expired") =>
            \A k \in Keys : get(store', k, TRUE) = get(store, k, TRUE)]_vars

\* A get returned the value of a set that replaced an earlier one, after a
\* cleanup that removed an expired row of the other key.
C35_Witness ==
    /\ last_op.op = "get"
    /\ last_op.result.found
    /\ last_op.result.value = "v2"
    /\ set_done[last_op.key].set
    /\ \E k \in Keys : set_done[k].set /\ ~set_done[k].deleted /\ ~store[k].present

(***************************************************************************)
(* The V2 workflow of api/v2_endpoints.py: start_search, run_search_task,  *)
(* select_jobs, run_analysis_task, and BillingService.debit_search.  The   *)
(* Supabase calls are synchronous, so a handler or a background task runs  *)
(* from one await to the next without another one in between.              *)
(***************************************************************************)
MaxApps == 2

MaxCredits == 2

SEARCH_COST == 1

\* len(raw_jobs) of a search
JobCounts == {0, 2}

AppIds == 1..Len(applications)

\* create_application_v2: the row inserted; found and debits are history.
NewApplication ==
    [status |-> "SEARCHING", raw_jobs |-> 0, search |-> "running",
     analysis |-> "none", found |-> 0, debits |-> 0]

\* can_search
can_search == credits >= SEARCH_COST

\* _debit_credits with the RPC debit_credit, which raises when the credits
\* are insufficient: <<the credits afterwards, whether it raised>>.
debit_search(results_count) ==
    IF results_count = 0 THEN [credits |-> credits, raised |-> FALSE]
    ELSE IF credits >= SEARCH_COST
         THEN [credits |-> credits - SEARCH_COST, raised |-> FALSE]
         ELSE [credits |-> credits, raised |-> TRUE]

\* start_search: 402 without credits; else the row is created and
\* run_search_task is scheduled.
StartSearch ==
    /\ Len(applications) < MaxApps
    /\ can_search
    /\ applications' = Append(applications, NewApplication)
    /\ UNCHANGED credits
    /\ UNCHANGED not_app_vars

\* run_search_task from the return of find_jobs_v2 to its end.  n is the
\* number of postings found, raised whether find_jobs_v2 raised, admin
\* whether db_service.admin_client exists.
RunSearchTask(id, n, raised, admin) ==
    /\ id \in AppIds
    /\ applications[id].search = "running"
    /\ LET app == applications[id]
           debit == debit_search(n)
           debited == ~raised /\ admin /\ n > 0 /\ ~debit.raised
           failed == raised \/ (admin /\ n > 0 /\ debit.raised)
           found == IF raised THEN 0 ELSE n
           status == IF ~admin THEN app.status
                     ELSE IF failed \/ n = 0 THEN "FAILED"
                     ELSE "WAITING_SELECTION"
       IN  /\ applications' =
                [applications EXCEPT ![id] =
                   [app EXCEPT !.status = status,
                               !.raw_jobs = IF admin /\ ~raised THEN n ELSE @,
                               !.search = "over",
                               !.found = found,
                               !.debits = IF debited THEN @ + 1 ELSE @]]
           /\ credits' = IF debited THEN debit.credits ELSE credits
    /\ UNCHANGED not_app_vars

CanSelect_Any(status) == TRUE

\* select_jobs: result.data["status"] != WAITING_SELECTION -> 400
CanSelect(status) == status = "WAITING_SELECTION"

\* select_jobs with at least one index inside raw_jobs; the other requests
\* are answered 400 and change nothing.
SelectJobs(id) ==
    /\ id \in AppIds
    /\ CanSelect(applications[id].status)
    /\ applications[id].raw_jobs > 0
    /\ applications' = [applications EXCEPT ![id].status = "ANALYZING",
                                            ![id].analysis = "started"]
    /\ UNCHANGED credits
    /\ UNCHANGED not_app_vars

\* run_analysis_task up to the awaits of the OCR and of the LLM; without
\* admin client it returns at once.
AnalysisBegin(id, admin) ==
    /\ id \in AppIds
    /\ applications[id].analysis = "started"
    /\ applications' = [applications EXCEPT ![id].analysis =
                          IF admin THEN "analyzing" ELSE "over"]
    /\ UNCHANGED credits
    /\ UNCHANGED not_app_vars

\* run_analysis_task after generate_cover_letter: GENERATING_DOCS is
\* written; an exception before that writes FAILED.
AnalysisLetter(id, raised) ==
    /\ id \in AppIds
    /\ applications[id].analysis = "analyzing"
    /\ applications' =
         [applications EXCEPT ![id].status =
                                IF raised THEN "FAILED" ELSE "GENERATING_DOCS",
                              ![id].analysis =
                                IF raised THEN "over" ELSE "generating"]
    /\ UNCHANGED credits
    /\ UNCHANGED not_app_vars

\* run_analysis_task from the PDF to the end: COMPLETED is written; an
\* exception of the PDF generator writes FAILED.
AnalysisFinish(id, raised) ==
    /\ id \in AppIds
    /\ applications[id].analysis = "generating"
    /\ applications' =
         [applications EXCEPT ![id].status =
                                IF raised THEN "FAILED" ELSE "COMPLETED",
                              ![id].analysis = "over"]
    /\ UNCHANGED credits
    /\ UNCHANGED not_app_vars

AppInit ==
    /\ applications = <<>>
    /\ credits \in 0..MaxCredits
    /\ DedupIdle
    /\ BreakerInit
    /\ FetchIdle
    /\ SearchIdle
    /\ CascadeIdle
    /\ FilterIdle
    /\ ScoreIdle
    /\ BatchIdle
    /\ EnrichIdle
    /\ RepeatIdle
    /\ StripeIdle
    /\ TallyIdle
    /\ FindIdle
    /\ TaskIdle
    /\ KvIdle
    /\ ChatIdle

AppNext ==
    \/ StartSearch
    \/ \E id \in 1..MaxApps, n \in JobCounts, raised \in BOOLEAN,
          admin \in BOOLEAN : RunSearchTask(id, n, raised, admin)
    \/ \E id \in 1..MaxApps : SelectJobs(id)
    \/ \E id \in 1..MaxApps, admin \in BOOLEAN : AnalysisBegin(id, admin)
    \/ \E id \in 1..MaxApps, raised \in BOOLEAN : AnalysisLetter(id, raised)
    \/ \E id \in 1..MaxApps, raised \in BOOLEAN : AnalysisFinish(id, raised)

AppSpec == AppInit /\ [][AppNext]_vars

\* The documented chain.
NextStatus(status) ==
    CASE status = "SEARCHING" -> "WAITING_SELECTION"
      [] status = "WAITING_SELECTION" -> "ANALYZING"
      [] status = "ANALYZING" -> "GENERATING_DOCS"
      [] status = "GENERATING_DOCS" -> "COMPLETED"
      [] OTHER -> "none"

\* C32: the status of an application changes only to the next status of the
\* chain SEARCHING, WAITING_SELECTION, ANALYZING, GENERATING_DOCS, COMPLETED,
\* or to FAILED; it never changes once it is COMPLETED or FAILED.
C32_StatusFollowsChain ==
    [][\A id \in AppIds :
         LET before == applications[id].status
             after == applications'[id].status
         IN  \/ after = before
             \/ after = NextStatus(before)
             \/ after = "FAILED" /\ before # "COMPLETED"]_vars

\* One application went through the whole chain and another one failed
\* after its postings were offered for selection.
C32_Witness ==
    \E i, j \in AppIds :
      /\ applications[i].status = "COMPLETED"
      /\ applications[i].analysis = "over"
      /\ applications[j].status = "FAILED"
      /\ applications[j].raw_jobs > 0
      /\ applications[j].analysis = "over"

\* C33: a search that produced postings has debited exactly one credit and a
\* search that produced none has debited nothing; an application left in
\* WAITING_SELECTION was debited once, one that FAILED without results never.
C33_NoCureNoPay ==
    \A id \in AppIds :
      LET app == applications[id]
      IN  /\ (app.search = "over" /\ app.found > 0) => app.debits = 1
          /\ app.found = 0 => app.debits = 0
          /\ (app.search = "over" /\ app.status = "WAITING_SELECTION") =>
               app.debits = 1

(***************************************************************************)
(* The JobyJoba chat of api/notifications_chat.py: accept_jobyjoba_offer   *)
(* creates the session; send_chat_message reads the session, awaits the    *)
(* answer of joby_joba_service.chat, then writes the session back.         *)
(***************************************************************************)
MaxRequests == 5

\* "max_messages": 10 in accept_jobyjoba_offer, scaled down.
max_messages == 3

NoSession == [status |-> "none", message_count |-> 0, max_messages |-> 0,
              messages |-> 0]

\* accept_jobyjoba_offer: the row inserted, holding the welcome message.
NewSession == [status |-> "active", message_count |-> 0,
               max_messages |-> max_messages, messages |-> 1]

Answered == {r \in 1..Len(chat_requests) : chat_requests[r].pc = "answered"}

\* accept_jobyjoba_offer when the application has no session yet.
AcceptJobyjobaOffer ==
    /\ chat_session.status = "none"
    /\ chat_session' = NewSession
    /\ UNCHANGED chat_requests
    /\ UNCHANGED not_chat_vars

\* send_chat_message up to the await of joby_joba_service.chat: 400 when the
\* session is not active or has no message left (it is then marked
\* completed); else the request goes on with the session it has read.
SendChatMessageBegin ==
    /\ Len(chat_requests) < MaxRequests
    /\ chat_session.status # "none"
    /\ LET session == chat_session
           remaining == session.max_messages - session.message_count
       IN  IF session.status # "active"
           THEN /\ chat_requests' =
                     Append(chat_requests, [pc |-> "refused", session |-> session])
                /\ UNCHANGED chat_session
           ELSE IF remaining <= 0
           THEN /\ chat_session' = [chat_session EXCEPT !.status = "completed"]
                /\ chat_requests' =
                     Append(chat_requests, [pc |-> "refused", session |-> session])
           ELSE /\ chat_requests' =
                     Append(chat_requests, [pc |-> "awaiting", session |-> session])
                /\ UNCHANGED chat_session
    /\ UNCHANGED not_chat_vars

\* send_chat_message after the await: the session is written back from the
\* copy read before the await, and the answer is returned.
SendChatMessageEnd(r) ==
    /\ r \in 1..Len(chat_requests)
    /\ chat_requests[r].pc = "awaiting"
    /\ LET session == chat_requests[r].session
           new_count == session.message_count + 1
           new_remaining == session.max_messages - new_count
       IN  chat_session' =
             [chat_session EXCEPT
                !.messages = session.messages + 2,
                !.message_count = new_count,
                !.status = IF new_remaining > 0 THEN "active" ELSE "completed"]
    /\ chat_requests' = [chat_requests EXCEPT ![r].pc = "answered"]
    /\ UNCHANGED not_chat_vars

ChatInit ==
    /\ chat_session = NoSession
    /\ chat_requests = <<>>
    /\ DedupIdle
    /\ BreakerInit
    /\ FetchIdle
    /\ SearchIdle
    /\ CascadeIdle
    /\ FilterIdle
    /\ ScoreIdle
    /\ BatchIdle
    /\ EnrichIdle
    /\ RepeatIdle
    /\ StripeIdle
    /\ TallyIdle
    /\ FindIdle
    /\ TaskIdle
    /\ KvIdle
    /\ AppIdle

ChatNext ==
    \/ AcceptJobyjobaOffer
    \/ SendChatMessageBegin
    \/ \E r \in 1..MaxRequests : SendChatMessageEnd(r)

ChatSpec == ChatInit /\ [][ChatNext]_vars

\* C39: message_count never exceeds max_messages; it equals the number of
\* answered requests, which never exceeds max_messages; once it has reached
\* max_messages the session is 'completed'.
C39_CountMatchesReplies ==
    chat_session.status # "none" =>
      /\ chat_session.message_count <= chat_session.max_messages
      /\ chat_session.message_count = Cardinality(Answered)
      /\ Cardinality(Answered) <= chat_session.max_messages
      /\ chat_session.message_count = chat_session.max_messages =>
           chat_session.status = "completed"

====
